---- MODULE Spec2Model ----
(***************************************************************************)
(* Offline cache controller of nuwault: the service worker generated from  *)
(* src/templates/sw.template.js (the Interceptor), the build step that     *)
(* stamps its cache version (generate-sw.js) and the worker lifecycle it   *)
(* drives.  One worker instance exists per build; every instance runs the  *)
(* same template with its own CACHE_NAME against the shared CacheStorage.  *)
(***************************************************************************)
EXTENDS Integers, Sequences, FiniteSets, TLC

\* ------------------------------------------------------------------ bounds
\* number of builds deployed in the lifecycle specification
MaxVersion == 6
\* number of builds deployed in the content specification
MaxContentVersion == 2
\* number of builds deployed in the request specification
MaxFetchVersion == 1
\* detached cache-writing tasks that may be in flight at once
MaxPending == 1
\* number of builds deployed in the page specification
MaxClientVersion == 2
\* number of builds deployed in the command specification
MaxCommandVersion == 1
\* cache commands a page issues
MaxCalls == 2
\* runs of the build script, milliseconds the clock may advance between its
\* two readings, and values of the random bytes
MaxBuildRun == 2
MaxTick == 1
MaxRandom == 3
\* cache.put calls of shell updates that may be unsettled at once
MaxShellPuts == 4

\* ------------------------------------------------------ program constants
MAX_CACHES == 5
APP_NAME == "nuwault"
\* a cache owned by something else on the same origin
FOREIGN_APP == "workbox-precache"

Builds == 1..MaxVersion
ContentBuilds == 1..MaxContentVersion
FetchBuilds == 1..MaxFetchVersion
ClientBuilds == 1..MaxClientVersion
CommandBuilds == 1..MaxCommandVersion
Calls == 1..MaxCalls

\* ------------------------------------------------------------------- URLs
\* A URL string is host ++ hostSuffix ++ dir ++ stem ++ ext ++ query.
\* self.location.origin is the string SelfHost.
SelfHost == "https://nuwault.example"
CdnHost == "https://cdn.example"

Url(host, suffix, dir, stem, ext, query) ==
  [host |-> host, hostSuffix |-> suffix, dir |-> dir, stem |-> stem,
   ext |-> ext, query |-> query]

Local(dir, stem, ext) == Url(SelfHost, "", dir, stem, ext, "")

RootUrl == Local("/", "", "")
IndexUrl == Local("/", "index", ".html")
ManifestUrl == Local("/", "manifest", ".json")
RobotsUrl == Local("/", "robots", ".txt")
SitemapUrl == Local("/", "sitemap", ".xml")
IconUrl == Local("/assets/img/icons/", "nuwault_icon_192x192", ".png")
FaviconSvgUrl == Local("/assets/img/favicon/", "favicon", ".svg")
AppJsUrl == Local("/assets/", "index-abc123", ".js")
AppCssUrl == Local("/assets/", "index-abc123", ".css")
ApiUrl == Local("/api/", "data", "")
\* an image no dynamic cache pattern matches
PhotoUrl == Local("/assets/img/", "screenshot", ".webp")
\* a URL of another origin whose string begins with the origin string
PrefixedForeignUrl ==
  Url(SelfHost, ".evil.test", "/assets/", "index-abc123", ".js", "")
CdnJsUrl == Url(CdnHost, "", "/lib/", "vendor", ".js", "")

\* url.startsWith(self.location.origin)
StartsWithOrigin(url) == url.host = SelfHost

\* the origin the URL really belongs to
SameOrigin(url) == url.host = SelfHost /\ url.hostSuffix = ""

\* new URL(url).pathname === p
PathnameIs(url, dir, stem, ext) ==
  url.dir = dir /\ url.stem = stem /\ url.ext = ext

\* url.includes(stem + ext)
UrlIncludes(url, stem, ext) == url.stem = stem /\ url.ext = ext

\* variant with a fault: robots.txt added to the precache list
StaticCacheUrlsWithRobots ==
  {RootUrl, IndexUrl, ManifestUrl, IconUrl, FaviconSvgUrl, RobotsUrl}

\* one URL of each group of the list: core files, icons, favicon files
STATIC_CACHE_URLS == {RootUrl, IndexUrl, ManifestUrl, IconUrl, FaviconSvgUrl}

DYNAMIC_CACHE_PATTERNS ==
  {".js", ".css", ".woff", ".woff2", ".png", ".jpg", ".jpeg", ".svg"}

\* DYNAMIC_CACHE_PATTERNS.some(pattern => pattern.test(url)): every pattern
\* is anchored at the end of the URL string, so a query defeats it
ShouldCache(url) == url.query = "" /\ url.ext \in DYNAMIC_CACHE_PATTERNS

\* ------------------------------------------------------- version strings
\* Strings that are compared are sequences of collation weights:
\* '-' < '.' < '0'..'9' < 'a'..'z'.
Dash == 0
Dot == 1
Digit(d) == 2 + d

RECURSIVE Base36(_)
Base36(n) == IF n < 36 THEN <<Digit(n)>> ELSE Base36(n \div 36) \o <<Digit(n % 36)>>

\* the two placeholder versions "0.0.0" and "1.0.0"
V000 == <<Digit(0), Dot, Digit(0), Dot, Digit(0)>>
V100 == <<Digit(1), Dot, Digit(0), Dot, Digit(0)>>
V190 == <<Digit(1), Dot, Digit(9), Dot, Digit(0)>>

\* a generateCacheVersion that stamps the build time on every version
generateCacheVersionStamped(appVersion, buildTimestamp, buildHash) ==
  appVersion \o <<Dash>> \o Base36(buildTimestamp \div 1000) \o <<Dash>> \o buildHash

\* generateCacheVersion(appVersion) with Date.now() = buildTimestamp and
\* generateBuildHash() = buildHash
generateCacheVersion(appVersion, buildTimestamp, buildHash) ==
  LET shortTimestamp == Base36(buildTimestamp \div 1000)
      isProductionRelease == appVersion # V000 /\ appVersion # V100
  IN IF isProductionRelease
       THEN appVersion \o <<Dash>> \o buildHash
       ELSE appVersion \o <<Dash>> \o shortTimestamp \o <<Dash>> \o buildHash

\* a.localeCompare(b) < 0 on weight sequences
RECURSIVE LocaleLess(_, _)
LocaleLess(a, b) ==
  IF Len(b) = 0 THEN FALSE
  ELSE IF Len(a) = 0 THEN TRUE
  ELSE IF Head(a) # Head(b) THEN Head(a) < Head(b)
  ELSE LocaleLess(Tail(a), Tail(b))

\* Build histories: what the build step was given for each build.  Build b
\* starts at second 1000 + 40 * b.
BuildTime(b) == (1000 + 40 * b) * 1000
\* two hexadecimal digits of a build hash
HashOf(n) == <<Digit(n \div 16), Digit(n % 16)>>

\* timestamp + randomBytes: the decimal clock reading followed by the
\* hexadecimal digits of the random bytes, here one digit of them
HashInput(timestamp, randomBytes) == timestamp * 16 + randomBytes

\* crypto.createHash('sha256').update(input).digest('hex').substring(0, 8):
\* a fixed mixing of the input, two digits of it
Sha256Prefix(input) == HashOf((input * 37 + 11) % 256)

\* generateBuildHash() with Date.now() = timestamp and
\* crypto.randomBytes(8) = randomBytes
generateBuildHash(timestamp, randomBytes) ==
  Sha256Prefix(HashInput(timestamp, randomBytes))

\* the versions VITE_APP_VERSION may carry, the default "1.0.0" among them
AppVersions == {V000, V100, V190}

\* Date.now() when generateCacheVersion starts: the start of a second, its
\* last millisecond and the millisecond after
BuildClock ==
  UNION {{BuildTime(b), BuildTime(b) + 999, BuildTime(b) + 1000} : b \in 1..MaxBuildRun}

\* nothing built yet
NoBuild ==
  [appVersion |-> <<>>, buildTimestamp |-> 0, hashTimestamp |-> 0,
   randomBytes |-> 0, cacheVersion |-> <<>>]

\* placeholder version on every build: names carry the build time
PlaceholderHistory ==
  [b \in Builds |-> [appVersion |-> V100, hash |-> HashOf((5 * b) % 11)]]
\* one release version rebuilt: names differ by the random hash only, and
\* here every build drew a smaller hash than the one before
RebuildHistory ==
  [b \in Builds |-> [appVersion |-> V190, hash |-> HashOf(40 - b)]]

BuildHistories == {PlaceholderHistory, RebuildHistory}


\* ----------------------------------------------------------- cache names
\* The cache `${app}-v${version of build}`; a foreign cache has build 0.
CacheNameOf(app, b) == [app |-> app, build |-> b]
ForeignCache == CacheNameOf(FOREIGN_APP, 0)
CacheNames == {CacheNameOf(APP_NAME, b) : b \in Builds} \cup {ForeignCache}

\* CACHE_NAME of the worker generated by build b
CACHE_NAME(b) == CacheNameOf(APP_NAME, b)

\* the two keys under which the entry document is stored
ShellKeys == {RootUrl, IndexUrl}

\* no shell update has written yet: `stored` is the version of the entry
\* document that a put of a shell update or of first-visit caching left
\* under a key of a cache, 0 when the key is as the install left it;
\* `puts` are the cache.put calls of such updates that have not settled
NoShell ==
  [stored |-> [n \in CacheNames |-> [k \in ShellKeys |-> 0]], puts |-> {}]

\* ------------------------------------------------------ entry document
\* A reference of the entry document: the tag, its rel, and the
\* double-quoted attribute value prefix ++ dir ++ stem ++ ext ++ query.
Ref(tag, rel, prefix, dir, stem, ext, query) ==
  [tag |-> tag, rel |-> rel, prefix |-> prefix, dir |-> dir, stem |-> stem,
   ext |-> ext, query |-> query]

\* the prefix of a protocol-relative reference to the CDN
ProtocolRelative == "//cdn.example/"

\* what `vite build` with base './' emits, plus a CDN script
RelativeDoc ==
  {Ref("script", "", "./", "assets/", "index-abc123", ".js", ""),
   Ref("link", "stylesheet", "./", "assets/", "index-abc123", ".css", ""),
   Ref("link", "icon", "./", "assets/img/favicon/", "favicon", ".svg", ""),
   Ref("script", "", CdnHost \o "/", "lib/", "vendor", ".js", "")}
\* root-relative and bare references
RootedDoc ==
  {Ref("script", "", "/", "assets/", "index-abc123", ".js", ""),
   Ref("link", "stylesheet", "", "assets/", "index-abc123", ".css", "")}
\* the single-file build inlines every script and stylesheet
InlinedDoc == {}
\* an entry document edited by hand: a stylesheet with a version query and
\* a protocol-relative CDN script
HandWrittenDoc ==
  {Ref("script", "", "./", "assets/", "index-abc123", ".js", ""),
   Ref("link", "stylesheet", "./", "assets/", "index-abc123", ".css", "?v=2"),
   Ref("script", "", ProtocolRelative, "lib/", "vendor", ".js", "")}

EntryDocs == {RelativeDoc, RootedDoc, InlinedDoc, HandWrittenDoc}

\* value.includes('://')
HasScheme(ref) == ref.prefix \notin {"./", "/", "", ProtocolRelative}

\* the URL fetched and stored for the value
\* src.startsWith('./') ? src.substring(1) : src.startsWith('/') ? src : '/' + src,
\* a path of the origin unless the value begins with '//'
NormalizeRef(ref) ==
  Url(IF ref.prefix = ProtocolRelative THEN CdnHost ELSE SelfHost, "",
      "/" \o ref.dir, ref.stem, ref.ext, ref.query)

\* <link[^>]+href="([^"]+\.css)": the value ends with .css
HrefEndsWithCss(ref) == ref.ext = ".css" /\ ref.query = ""

\* variant with a fault: the stylesheet links are not extracted
AdditionalUrlsScriptsOnly(doc) ==
  {NormalizeRef(r) : r \in {x \in doc : x.tag = "script" /\ ~HasScheme(x)}}

\* the additionalUrls the install handler extracts from the entry document:
\* every <script ... src="..."> and every <link ... href="....css"> whose
\* value has no scheme
AdditionalUrls(doc) ==
  {NormalizeRef(r) : r \in {x \in doc : x.tag = "script" /\ ~HasScheme(x)}}
  \cup
  {NormalizeRef(r) : r \in {x \in doc : x.tag = "link" /\ HrefEndsWithCss(x) /\ ~HasScheme(x)}}


\* ------------------------------------------------------------------ state
VARIABLES
  isDevelopment,    \* the worker runs on the dev server (localhost:5173)
  history,          \* what each build was stamped with
  entryDoc,         \* the references of the origin's /index.html
  status,           \* lifecycle status of the worker of each build
  skipWaitingFlag,  \* the worker called self.skipWaiting()
  controller,       \* build whose worker controls the page, 0 for none
  cacheNames,       \* caches.keys()
  entries,          \* request keys stored in each cache
  pending,          \* cache writes started and not awaited
  last,             \* the handler that ran last and what it answered
  promoted,         \* waiting workers that have received SKIP_WAITING
  page,             \* the open page: its PWAManager and what it has shown
  calls,            \* the cache commands the page has issued
  mailbox,          \* messages posted to a worker and not yet handled
  ports,            \* what has been posted on the reply port of each call
  built,            \* what the build script stamped the worker file with
  shell,            \* the entry document versions that shell updates wrote
  info,             \* what a GET_CACHE_INFO handler has read so far
  flight            \* the fetch handler that is between two awaited steps

vars ==
  <<isDevelopment, history, entryDoc, status, skipWaitingFlag, controller,
    cacheNames, entries, pending, last, promoted, page, calls, mailbox, ports,
    built, shell, info, flight>>

config == <<isDevelopment, history, entryDoc, built>>

\* the handlers that are between two of their awaited steps
awaiting == <<info, flight>>

\* the page and its message channels: untouched by a worker event that no
\* page observes
pageSide == <<page, calls, mailbox, ports>>

NoUrl == Url("", "", "", "", "", "")
NoRequest == [method |-> "", url |-> NoUrl, mode |-> "", destination |-> ""]
NoReply ==
  [sent |-> FALSE, success |-> FALSE, error |-> FALSE, clearedCaches |-> 0,
   cacheVersion |-> 0, appCaches |-> {}, currentCacheExists |-> FALSE]

\* commands whose immediate successor is recorded
TrackedOps == {"CLEAR_APP_CACHE"}

\* the record kept of a handler run, with the tracked command it ran right
\* after, if any: `pruned` when cleanupOldCaches completed in it, `gone` the
\* caches that pass deleted, `existed` whether CACHE_NAME was there before,
\* `fails` the URLs whose fetch failed on it and `fetched` those it fetched,
\* `net` the outcome of the network fetch of an answered navigation, `store`
\* what the cache store did to the operations a fetch handler awaited,
\* `background` the outcome of the detached fetch that a handler followed
\* await by await started before it answered
Event(op, by, prev) ==
  [op |-> op, by |-> by, follows |-> IF prev \in TrackedOps THEN prev ELSE "",
   fails |-> {}, fetched |-> {}, req |-> NoRequest, net |-> "",
   responded |-> FALSE, response |-> "", wrote |-> {}, reply |-> NoReply,
   pruned |-> FALSE, gone |-> {}, existed |-> FALSE, notified |-> 0,
   store |-> "", background |-> ""]

\* the version string in the name of an application cache
CACHE_VERSION(b) ==
  generateCacheVersion(history[b].appVersion, BuildTime(b), history[b].hash)

\* no GET_CACHE_INFO handler is between its two reads of caches.keys();
\* otherwise `by` is its worker and `appCaches` what getAppCaches returned
NoInfo == [by |-> 0, appCaches |-> {}]

\* no fetch handler is between two awaited steps; otherwise `by` is its
\* worker, `req` the request, `pc` the operation it awaits, `fetched` what
\* the network fetch it has awaited returned and `store` whether a cache
\* operation it awaited was rejected
NoFlight == [by |-> 0, req |-> NoRequest, pc |-> "", fetched |-> "", store |-> ""]

\* ------------------------------------------------------------ CacheManager
\* CacheManager.getAppCaches: the names that start with CACHE_PREFIX
getAppCaches(names) == {n \in names : n.app = APP_NAME}

\* CacheManager.currentCacheExists
currentCacheExists(b, names) == CACHE_NAME(b) \in names

\* position of a name in sortedCaches (descending by version string)
SortedIndex(n, appCaches) ==
  Cardinality({m \in appCaches :
                 LocaleLess(CACHE_VERSION(n.build), CACHE_VERSION(m.build))})

\* variant with a fault: slice(MAX_CACHES + 1), one cache too many survives
cleanupOldCachesOffByOne(b, names) ==
  LET appCaches == getAppCaches(names)
      beyond == IF Cardinality(appCaches) > MAX_CACHES
                  THEN {n \in appCaches : SortedIndex(n, appCaches) >= MAX_CACHES + 1}
                  ELSE {}
      others == IF ~isDevelopment
                  THEN {n \in appCaches : n # CACHE_NAME(b)}
                  ELSE {}
  IN beyond \cup others

\* variant with a fault: the production branch is missing
cleanupOldCachesWindowOnly(b, names) ==
  LET appCaches == getAppCaches(names)
  IN IF Cardinality(appCaches) > MAX_CACHES
       THEN {n \in appCaches : SortedIndex(n, appCaches) >= MAX_CACHES}
       ELSE {}

\* CacheManager.cleanupOldCaches as run by build b: the caches it deletes
cleanupOldCaches(b, names) ==
  LET appCaches == getAppCaches(names)
      beyond == IF Cardinality(appCaches) > MAX_CACHES
                  THEN {n \in appCaches : SortedIndex(n, appCaches) >= MAX_CACHES}
                  ELSE {}
      others == IF ~isDevelopment
                  THEN {n \in appCaches : n # CACHE_NAME(b)}
                  ELSE {}
  IN beyond \cup others

\* cache.addAll(urls): all or nothing
AddAll(have, urls, fails) ==
  IF urls \cap fails = {}
    THEN [ok |-> TRUE, keys |-> have \cup urls]
    ELSE [ok |-> FALSE, keys |-> have]

\* the stores after `names`/`ents` lose the caches in `gone`
Without(ents, gone) == [n \in CacheNames |-> IF n \in gone THEN {} ELSE ents[n]]


\* ---------------------------------------------------------- fetch handler
Request(method, url, mode, destination) ==
  [method |-> method, url |-> url, mode |-> mode, destination |-> destination]

\* outcome of the network fetch a handler makes: it rejects, or answers
\* with status 200, or answers with status 404
NetOutcomes == {"fail", "ok200", "err404"}

\* the same with an answer whose status is another 2xx than 200
NetResponses == NetOutcomes \cup {"ok203"}

\* response.ok: the status is in the range 200-299
ResponseOk(net) == net \in {"ok200", "ok203"}

\* how a cache write ends: both steps succeed, caches.open rejects, or
\* cache.put rejects
WriteOutcomes == {"ok", "openFails", "putFails"}

\* what the cache store does to a fetch handler: every operation succeeds,
\* or caches.match rejects, or caches.open rejects, or cache.put rejects
StoreOutcomes == {"ok", "matchFails", "openFails", "putFails"}

\* DEV_EXCLUDE_PATTERNS.some(pattern => pattern.test(url))
DevExcluded(url) ==
  \/ url.dir \in {"/src/", "/@vite/"}
  \/ url.query \in {"?t=1700000000", "?import"}
  \/ UrlIncludes(url, "favicon", ".ico")

IsFavicon(url) ==
  UrlIncludes(url, "favicon", ".ico") \/ UrlIncludes(url, "favicon", ".svg")

IsStaticFile(url) ==
  PathnameIs(url, "/", "robots", ".txt") \/ PathnameIs(url, "/", "sitemap", ".xml")

\* caches.match(key): any cache of the origin may answer
CacheMatch(key, names, ents) == \E n \in names : key \in ents[n]

\* a detached task that puts `keys` into CACHE_NAME: `opened` when the
\* handler awaited caches.open itself, so that only the puts are detached
Put(b, keys, opened) == [cache |-> CACHE_NAME(b), keys |-> keys, opened |-> opened]

\* the handler returns without event.respondWith
PassThrough == [responded |-> FALSE, response |-> "", opens |-> FALSE, puts |-> {}]
Respond(response, opens, puts) ==
  [responded |-> TRUE, response |-> response, opens |-> opens, puts |-> puts]

\* response.status === 200 && response.type === 'basic' && shouldCache
Cacheable(url, net) == net = "ok200" /\ SameOrigin(url) /\ ShouldCache(url)

\* image requests get an empty 404, everything else a 503
TypedFallback(req) ==
  IF req.destination = "image" THEN "image404" ELSE "unavailable503"

\* robots.txt and sitemap.xml, lines 608-622
StaticFileFetch(net) ==
  Respond(IF ResponseOk(net) THEN "network" ELSE "notfound404", FALSE, {})

\* favicon.ico and favicon.svg, lines 661-671 and 747-757
FaviconFetch(net) ==
  Respond(IF net = "fail" THEN "notfound404" ELSE "network", FALSE, {})

\* development, lines 628-721
DevFetch(b, req, net, names, ents) ==
  IF DevExcluded(req.url) THEN PassThrough
  ELSE IF req.mode = "navigate"
    THEN Respond(IF ResponseOk(net) THEN "network" ELSE "devOffline503", FALSE, {})
  ELSE IF IsFavicon(req.url) THEN FaviconFetch(net)
  ELSE IF net # "fail"
    THEN Respond("network", FALSE,
                 IF Cacheable(req.url, net) THEN {Put(b, {req.url}, FALSE)} ELSE {})
  ELSE IF CacheMatch(req.url, names, ents) THEN Respond("cache", FALSE, {})
  ELSE Respond(TypedFallback(req), FALSE, {})

\* production, other requests: lines 925-999
ProdGenericFetch(b, req, net, names, ents) ==
  IF CacheMatch(req.url, names, ents)
    THEN Respond("cache", FALSE,
                 IF Cacheable(req.url, net) THEN {Put(b, {req.url}, FALSE)} ELSE {})
  ELSE IF net # "fail"
    THEN Respond("network", FALSE,
                 IF Cacheable(req.url, net) THEN {Put(b, {req.url}, FALSE)} ELSE {})
  ELSE Respond(TypedFallback(req), FALSE, {})

\* variant with a fault: the revalidation refreshes /index.html only
ProdNavigateIndexOnly(b, req, net, names, ents) ==
  IF CacheMatch(IndexUrl, names, ents) \/ CacheMatch(RootUrl, names, ents)
    THEN Respond("cache", FALSE,
                 IF ResponseOk(net) THEN {Put(b, {IndexUrl}, FALSE)} ELSE {})
  ELSE IF ResponseOk(net)
    THEN Respond("network", TRUE, {Put(b, {RootUrl, IndexUrl}, TRUE)})
  ELSE Respond("offlinePage200", FALSE, {})

\* production, navigation: lines 792-923
ProdNavigate(b, req, net, names, ents) ==
  IF CacheMatch(IndexUrl, names, ents) \/ CacheMatch(RootUrl, names, ents)
    THEN Respond("cache", FALSE,
                 IF ResponseOk(net)
                   THEN {Put(b, {RootUrl, IndexUrl}, FALSE)}
                   ELSE {})
  ELSE IF ResponseOk(net)
    THEN Respond("network", TRUE, {Put(b, {RootUrl, IndexUrl}, TRUE)})
  ELSE Respond("offlinePage200", FALSE, {})

\* production, after the manifest branch: lines 791-999
ProdRest(b, req, net, names, ents) ==
  IF req.mode = "navigate"
    THEN ProdNavigate(b, req, net, names, ents)
    ELSE ProdGenericFetch(b, req, net, names, ents)

\* production, lines 727-1016
ProdFetch(b, req, net, names, ents) ==
  IF IsStaticFile(req.url) THEN StaticFileFetch(net)
  ELSE IF IsFavicon(req.url) THEN FaviconFetch(net)
  ELSE IF UrlIncludes(req.url, "manifest", ".json")
    THEN IF CacheMatch(ManifestUrl, names, ents) THEN Respond("cache", FALSE, {})
         ELSE IF ResponseOk(net)
           THEN Respond("network", TRUE, {Put(b, {ManifestUrl}, TRUE)})
         ELSE IF net = "fail" THEN Respond("defaultManifest", FALSE, {})
         ELSE ProdRest(b, req, net, names, ents)
  ELSE ProdRest(b, req, net, names, ents)

\* the fetch event handler, lines 591-1017
FetchHandler(b, req, net, names, ents) ==
  IF req.method # "GET" THEN PassThrough
  ELSE IF ~StartsWithOrigin(req.url) THEN PassThrough
  ELSE IF IsStaticFile(req.url) THEN StaticFileFetch(net)
  ELSE IF isDevelopment THEN DevFetch(b, req, net, names, ents)
  ELSE ProdFetch(b, req, net, names, ents)

\* the catch block of the production handler, lines 1001-1014: the request
\* is fetched again and a network failure is answered with a 503
OuterCatch(net) ==
  Respond(IF net = "fail" THEN "unavailable503" ELSE "network", FALSE, {})

\* the handler reaches an awaited caches.match: in development only after
\* the network failed (line 693), in production as the first step of the
\* manifest, navigation and generic branches (761, 793, 926)
AwaitsMatch(req, net) ==
  /\ req.method = "GET"
  /\ StartsWithOrigin(req.url)
  /\ ~IsStaticFile(req.url)
  /\ ~IsFavicon(req.url)
  /\ isDevelopment =>
       ~DevExcluded(req.url) /\ req.mode # "navigate" /\ net = "fail"

\* variant with a fault: the handler awaits every write it starts, so that
\* a rejected open or put ends in the catch block
FetchUnderAwaitingWrites(b, req, net, store, names, ents) ==
  LET r == FetchHandler(b, req, net, names, ents)
  IN IF store = "matchFails" /\ AwaitsMatch(req, net)
       THEN IF isDevelopment THEN Respond("notfound404", FALSE, {}) ELSE OuterCatch(net)
     ELSE IF store \in {"openFails", "putFails"} /\ r.puts # {}
       THEN IF isDevelopment THEN Respond("notfound404", FALSE, {}) ELSE OuterCatch(net)
     ELSE r

\* the fetch event handler when the cache store behaves as `store`.  A
\* rejected caches.match ends in the catch block around it: an empty 404
\* in development (715-717), the second fetch in production (1001-1014).
\* A rejected caches.open that the handler awaited is caught with the
\* network errors: the manifest branch answers with the default manifest
\* (775-788), the navigation branch with the offline page (825-827).
\* Writes the handler does not await end without it.
FetchUnder(b, req, net, store, names, ents) ==
  LET r == FetchHandler(b, req, net, names, ents)
  IN IF store = "matchFails" /\ AwaitsMatch(req, net)
       THEN IF isDevelopment THEN Respond("notfound404", FALSE, {}) ELSE OuterCatch(net)
     ELSE IF store = "openFails" /\ r.opens
       THEN Respond(IF UrlIncludes(req.url, "manifest", ".json")
                      THEN "defaultManifest" ELSE "offlinePage200", FALSE, {})
     ELSE r


\* --------------------------------------------------------- request inputs
\* URLs whose fetch may fail during an install or a forced update: the
\* entry document, a static asset, the manifest, a discovered asset
FailableUrls == {IndexUrl, IconUrl, ManifestUrl, AppJsUrl}

Requests ==
  {Request("GET", RootUrl, "navigate", "document"),
   Request("GET", AppJsUrl, "no-cors", "script"),
   Request("GET", PhotoUrl, "no-cors", "image"),
   Request("GET", ManifestUrl, "cors", "manifest"),
   Request("GET", FaviconSvgUrl, "no-cors", "image"),
   Request("GET", RobotsUrl, "navigate", "document"),
   Request("GET", SitemapUrl, "cors", ""),
   Request("GET", ApiUrl, "cors", ""),
   Request("POST", ApiUrl, "cors", ""),
   Request("GET", CdnJsUrl, "no-cors", "script"),
   Request("GET", PrefixedForeignUrl, "no-cors", "script"),
   Request("GET", Local("/src/", "main", ".js"), "cors", "script")}

\* ---------------------------------------------------------------- actions
Statuses == {"Unregistered", "Installing", "Waiting", "Active", "Superseded"}

\* navigator.serviceWorker.register('./sw.js') finds the script of build b:
\* builds are deployed in order, one installing worker at a time
Register(b) ==
  /\ status[b] = "Unregistered"
  /\ \A a \in Builds : a < b => status[a] \notin {"Unregistered", "Installing"}
  /\ status' = [status EXCEPT ![b] = "Installing"]
  /\ last' = Event("register", b, last.op)
  /\ UNCHANGED <<config, shell, awaiting, skipWaitingFlag, controller, cacheNames,
                 entries, pending>>

\* variant with a fault: no per-URL retry after cache.addAll rejected
InstallKeysNoRetry(have, fails) ==
  LET all == AddAll(have, STATIC_CACHE_URLS, fails)
      additionalUrls == IF IndexUrl \notin fails THEN AdditionalUrls(entryDoc) ELSE {}
      additional == {u \in additionalUrls : u \notin fails}
      mainPage == IF IndexUrl \notin fails THEN {RootUrl, IndexUrl} ELSE {}
      manifest == IF ManifestUrl \notin fails THEN {ManifestUrl} ELSE {}
  IN all.keys \cup additional \cup mainPage \cup manifest

\* the keys the install handler leaves in its cache, lines 441-531
InstallKeys(have, fails) ==
  LET all == AddAll(have, STATIC_CACHE_URLS, fails)
      static == IF all.ok THEN all.keys
                ELSE have \cup {u \in STATIC_CACHE_URLS : u \notin fails}
      additionalUrls == IF IndexUrl \notin fails THEN AdditionalUrls(entryDoc) ELSE {}
      additional == {u \in additionalUrls : u \notin fails}
      mainPage == IF IndexUrl \notin fails THEN {RootUrl, IndexUrl} ELSE {}
      manifest == IF ManifestUrl \notin fails THEN {ManifestUrl} ELSE {}
  IN static \cup additional \cup mainPage \cup manifest

\* the URLs the install handler fetched successfully
InstallFetched(fails) ==
  (STATIC_CACHE_URLS \cup {IndexUrl, ManifestUrl}
     \cup (IF IndexUrl \notin fails THEN AdditionalUrls(entryDoc) ELSE {})) \ fails

\* the install event of the worker of build b; `fails` are the URLs whose
\* fetch fails.  The worker ends installed; a worker that was waiting is
\* discarded.
InstallEvent(b, fails) ==
  /\ status[b] = "Installing"
  /\ skipWaitingFlag' = [skipWaitingFlag EXCEPT ![b] = TRUE]
  /\ status' = [a \in Builds |->
                  IF a = b THEN "Waiting"
                  ELSE IF status[a] = "Waiting" THEN "Superseded"
                  ELSE status[a]]
  /\ IF isDevelopment
       THEN /\ UNCHANGED <<cacheNames, entries>>
            /\ last' = Event("install", b, last.op)
       ELSE LET opened == cacheNames \cup {CACHE_NAME(b)}
                keys == InstallKeys(entries[CACHE_NAME(b)], fails)
                gone == cleanupOldCaches(b, opened)
            IN /\ cacheNames' = opened \ gone
               /\ entries' = Without([entries EXCEPT ![CACHE_NAME(b)] = keys], gone)
               /\ last' = [Event("install", b, last.op) EXCEPT
                             !.fails = fails, !.fetched = InstallFetched(fails),
                             !.pruned = TRUE, !.gone = gone]
  /\ UNCHANGED <<config, shell, awaiting, controller, pending>>

\* variant with a fault: the worker it replaces stays active
ActivateEventNoHandover(b) ==
  /\ status[b] = "Waiting"
  /\ skipWaitingFlag[b] \/ controller = 0
  /\ status' = [status EXCEPT ![b] = "Active"]
  /\ LET gone == cleanupOldCaches(b, cacheNames)
     IN /\ cacheNames' = cacheNames \ gone
        /\ entries' = Without(entries, gone)
        /\ last' = [Event("activate", b, last.op) EXCEPT
                      !.pruned = TRUE, !.gone = gone, !.notified = b,
                      !.existed = currentCacheExists(b, cacheNames)]
  /\ controller' = b
  /\ UNCHANGED <<config, shell, awaiting, skipWaitingFlag, pending>>

\* the activate event of the worker of build b: it replaces the active
\* worker once it has called skipWaiting or no worker controls the page
ActivateEvent(b) ==
  /\ status[b] = "Waiting"
  /\ skipWaitingFlag[b] \/ controller = 0
  /\ status' = [a \in Builds |->
                  IF a = b THEN "Active"
                  ELSE IF status[a] = "Active" THEN "Superseded"
                  ELSE status[a]]
  /\ LET gone == cleanupOldCaches(b, cacheNames)
     IN /\ cacheNames' = cacheNames \ gone
        /\ entries' = Without(entries, gone)
        /\ last' = [Event("activate", b, last.op) EXCEPT
                      !.pruned = TRUE, !.gone = gone, !.notified = b,
                      !.existed = currentCacheExists(b, cacheNames)]
  /\ controller' = b
  /\ UNCHANGED <<config, shell, awaiting, skipWaitingFlag, pending>>

\* message SKIP_WAITING, sent to the waiting or else the active worker
SkipWaiting(b) ==
  /\ \/ status[b] = "Waiting"
     \/ status[b] = "Active" /\ \A a \in Builds : status[a] # "Waiting"
  /\ skipWaitingFlag' = [skipWaitingFlag EXCEPT ![b] = TRUE]
  /\ last' = Event("SKIP_WAITING", b, last.op)
  /\ UNCHANGED <<config, shell, awaiting, status, controller, cacheNames, entries, pending>>

\* message CLEAR_CACHE, lines 1088-1102
ClearCache(b) ==
  /\ status[b] = "Active"
  /\ cacheNames' = {}
  /\ entries' = Without(entries, cacheNames)
  /\ last' = [Event("CLEAR_CACHE", b, last.op) EXCEPT
                !.reply = [NoReply EXCEPT !.sent = TRUE, !.success = TRUE,
                             !.clearedCaches = Cardinality(cacheNames)]]
  /\ UNCHANGED <<config, shell, awaiting, status, skipWaitingFlag, controller, pending>>

\* variant with a fault: the cache of the worker that handles the command is spared
ClearAppCacheOldOnly(b) ==
  /\ status[b] = "Active"
  /\ LET appCaches == getAppCaches(cacheNames) \ {CACHE_NAME(b)}
     IN /\ cacheNames' = cacheNames \ appCaches
        /\ entries' = Without(entries, appCaches)
        /\ last' = [Event("CLEAR_APP_CACHE", b, last.op) EXCEPT
                      !.reply = [NoReply EXCEPT !.sent = TRUE, !.success = TRUE,
                                   !.clearedCaches = Cardinality(appCaches)]]
  /\ UNCHANGED <<config, shell, awaiting, status, skipWaitingFlag, controller, pending>>

\* variant with a fault: the handler opens the current cache again after
\* the deletion
ClearAppCacheReopens(b) ==
  /\ status[b] = "Active"
  /\ LET appCaches == getAppCaches(cacheNames)
     IN /\ cacheNames' = (cacheNames \ appCaches) \cup {CACHE_NAME(b)}
        /\ entries' = Without(entries, appCaches)
        /\ last' = [Event("CLEAR_APP_CACHE", b, last.op) EXCEPT
                      !.reply = [NoReply EXCEPT !.sent = TRUE, !.success = TRUE,
                                   !.clearedCaches = Cardinality(appCaches)]]
  /\ UNCHANGED <<config, shell, awaiting, status, skipWaitingFlag, controller, pending>>

\* message CLEAR_APP_CACHE, lines 1104-1118
ClearAppCache(b) ==
  /\ status[b] = "Active"
  /\ LET appCaches == getAppCaches(cacheNames)
     IN /\ cacheNames' = cacheNames \ appCaches
        /\ entries' = Without(entries, appCaches)
        /\ last' = [Event("CLEAR_APP_CACHE", b, last.op) EXCEPT
                      !.reply = [NoReply EXCEPT !.sent = TRUE, !.success = TRUE,
                                   !.clearedCaches = Cardinality(appCaches)]]
  /\ UNCHANGED <<config, shell, awaiting, status, skipWaitingFlag, controller, pending>>

\* message FORCE_UPDATE, lines 1120-1134 with CacheManager.forceCacheUpdate,
\* lines 413-418
ForceUpdate(b, fails) ==
  /\ status[b] = "Active"
  /\ LET opened == cacheNames \cup {CACHE_NAME(b)}
         rebuilt == AddAll({}, STATIC_CACHE_URLS, fails)
         gone == IF rebuilt.ok THEN cleanupOldCaches(b, opened) ELSE {}
     IN /\ cacheNames' = opened \ gone
        /\ entries' = Without([entries EXCEPT ![CACHE_NAME(b)] = rebuilt.keys], gone)
        /\ last' = [Event("FORCE_UPDATE", b, last.op) EXCEPT
                      !.fails = fails, !.fetched = STATIC_CACHE_URLS \ fails,
                      !.pruned = rebuilt.ok, !.gone = gone,
                      !.reply = [NoReply EXCEPT !.sent = TRUE, !.success = rebuilt.ok,
                                   !.error = ~rebuilt.ok,
                                   !.cacheVersion = IF rebuilt.ok THEN b ELSE 0]]
  /\ UNCHANGED <<config, shell, awaiting, status, skipWaitingFlag, controller, pending>>

\* message GET_CACHE_INFO, lines 1136-1158
GetCacheInfo(b) ==
  /\ status[b] = "Active"
  /\ last' = [Event("GET_CACHE_INFO", b, last.op) EXCEPT
                !.reply = [NoReply EXCEPT !.sent = TRUE, !.success = TRUE,
                             !.cacheVersion = b,
                             !.appCaches = getAppCaches(cacheNames),
                             !.currentCacheExists = currentCacheExists(b, cacheNames)]]
  /\ UNCHANGED <<config, shell, awaiting, status, skipWaitingFlag, controller, cacheNames, entries,
                 pending>>

\* a fetch event dispatched to the worker that controls the page
Fetch(b, req, net) ==
  /\ status[b] = "Active"
  /\ controller = b
  /\ LET r == FetchHandler(b, req, net, cacheNames, entries)
     IN /\ Cardinality(pending \cup r.puts) <= MaxPending
        /\ cacheNames' = IF r.opens THEN cacheNames \cup {CACHE_NAME(b)} ELSE cacheNames
        /\ pending' = pending \cup r.puts
        /\ last' = [Event("fetch", b, last.op) EXCEPT
                      !.req = req, !.net = IF r.responded /\ req.mode = "navigate" THEN net ELSE "",
                      !.responded = r.responded,
                      !.response = r.response, !.wrote = r.puts]
  /\ UNCHANGED <<config, shell, awaiting, status, skipWaitingFlag, controller, entries>>

\* a fetch event dispatched to the worker that controls the page, with
\* what the cache store does to the operations its handler awaits
FetchStore(b, req, net, store) ==
  /\ status[b] = "Active"
  /\ controller = b
  /\ LET r == FetchUnder(b, req, net, store, cacheNames, entries)
     IN /\ Cardinality(pending \cup r.puts) <= MaxPending
        /\ cacheNames' = IF r.opens THEN cacheNames \cup {CACHE_NAME(b)} ELSE cacheNames
        /\ pending' = pending \cup r.puts
        /\ last' = [Event("fetch", b, last.op) EXCEPT
                      !.req = req, !.net = net, !.store = store,
                      !.responded = r.responded,
                      !.response = r.response, !.wrote = r.puts]
  /\ UNCHANGED <<config, shell, awaiting, status, skipWaitingFlag, controller, entries>>

\* a detached cache write ends, and nobody observes how: its caches.open
\* rejects; or caches.open resolves, creating the cache when it is missing,
\* and the put rejects; or both succeed.  A task whose cache the handler
\* opened itself holds that cache object and only puts.
BackgroundWrite(w, outcome) ==
  /\ w \in pending
  /\ w.opened => outcome # "openFails"
  /\ pending' = pending \ {w}
  /\ IF outcome = "ok" /\ (~w.opened \/ w.cache \in cacheNames)
       THEN /\ cacheNames' = cacheNames \cup {w.cache}
            /\ entries' = [entries EXCEPT ![w.cache] = @ \cup w.keys]
       ELSE IF outcome = "putFails" /\ ~w.opened
         THEN /\ cacheNames' = cacheNames \cup {w.cache}
              /\ UNCHANGED entries
       ELSE UNCHANGED <<cacheNames, entries>>
  /\ last' = Event("write", w.cache.build, last.op)
  /\ UNCHANGED <<config, shell, awaiting, status, skipWaitingFlag, controller>>


\* -------------------------------------------------------------- the page
\* PWAManager of the open page (src/utils/pwaManager.js).  `loaded`: the
\* document has run init(), so it holds the registration and its
\* updatefound listener is attached; `listening`: the workers whose
\* statechange it listens to; `shown`: how often showUpdateAvailable ran for
\* a build; `under`: whether a worker controlled the page when the build
\* finished installing; `reset`, `trace`: progress of resetPWA and the steps
\* it has made; `unregistered`: registration.unregister() has resolved;
\* `update`: progress of the click handler of the update notification
NoPage ==
  [loaded |-> FALSE, listening |-> {}, shown |-> [b \in Builds |-> 0],
   under |-> [b \in Builds |-> ""], reset |-> "idle", trace |-> <<>>,
   unregistered |-> FALSE, update |-> "idle"]

\* the four cache commands of PWAManager and the message each posts
Kinds == {"getCacheStatus", "clearCache", "clearAppCache", "forceCacheUpdate"}

CommandOf(kind) ==
  CASE kind = "getCacheStatus" -> "GET_CACHE_INFO"
    [] kind = "clearCache" -> "CLEAR_CACHE"
    [] kind = "clearAppCache" -> "CLEAR_APP_CACHE"
    [] kind = "forceCacheUpdate" -> "FORCE_UPDATE"

\* a call of one of them: `pc` idle, waiting (message posted, timer armed),
\* enumerating (getCacheStatus reading the stores), done, or gone (the page
\* was unloaded); `posted`: a message went out; `got`: port1.onmessage ran;
\* `timedOut`: the timer fired first; `after`: the store operations the
\* page made itself after the timer fired; `names`: its caches.keys()
NoCall ==
  [kind |-> "", pc |-> "idle", posted |-> FALSE, got |-> FALSE,
   timedOut |-> FALSE, result |-> "", after |-> {}, names |-> {},
   reset |-> FALSE]

\* { type } posted to registration.active with port2 of the call's channel
Message(type, port, to) == [type |-> type, port |-> port, to |-> to]

\* name.includes('nuwault') || name.includes('Nuwault')
IncludesAppName(n) == n.app = APP_NAME

\* registration.active, 0 for null
ActiveWorker ==
  IF \E b \in Builds : status[b] = "Active"
    THEN CHOOSE b \in Builds : status[b] = "Active"
    ELSE 0

\* the page is loaded: init() registers the worker script and attaches the
\* updatefound listener
PageLoad ==
  /\ ~page.loaded
  /\ page' = [page EXCEPT !.loaded = TRUE, !.listening = {}]
  /\ last' = Event("load", 0, last.op)
  /\ UNCHANGED <<config, shell, awaiting, status, skipWaitingFlag, controller, cacheNames, entries,
                 pending, promoted, calls, mailbox, ports>>

\* the user reloads the page or opens it again: the document with its
\* PWAManager, its listeners and its unsettled calls is replaced by a new
\* one that has yet to run init()
Navigate ==
  /\ page.loaded
  /\ page.reset \in {"idle", "reloaded"}
  /\ page' = [page EXCEPT !.loaded = FALSE, !.listening = {}]
  /\ calls' = [c \in Calls |->
                 IF calls[c].pc \in {"waiting", "enumerating"}
                   THEN [calls[c] EXCEPT !.pc = "gone"]
                   ELSE calls[c]]
  /\ last' = Event("navigate", 0, last.op)
  /\ UNCHANGED <<config, shell, awaiting, status, skipWaitingFlag, controller, cacheNames, entries,
                 pending, promoted, mailbox, ports>>

\* updatefound on the registration while build b starts installing: the page
\* listens to the statechange of registration.installing
OnUpdateFound(b) ==
  page' = IF page.loaded THEN [page EXCEPT !.listening = @ \cup {b}] ELSE page

\* statechange of worker b to 'installed': the page shows the update
\* notification when it listens to b and navigator.serviceWorker.controller
\* is set
OnStateChange(b) ==
  page' = [page EXCEPT
             !.shown[b] = IF b \in page.listening /\ controller # 0 THEN @ + 1 ELSE @,
             !.under[b] = IF controller # 0 THEN "controlled" ELSE "uncontrolled"]

\* the direct and the fallback deletion of clearCache: every cache
DeleteAllFromPage ==
  /\ cacheNames' = {}
  /\ entries' = Without(entries, cacheNames)

\* variant with a fault: the direct deletion of clearAppCache takes every
\* cache of the origin
DeleteAppFromPageSparesNone ==
  /\ cacheNames' = {}
  /\ entries' = Without(entries, cacheNames)

\* the direct deletion of clearAppCache
DeleteAppFromPage ==
  LET appCaches == {n \in cacheNames : IncludesAppName(n)}
  IN /\ cacheNames' = cacheNames \ appCaches
     /\ entries' = Without(entries, appCaches)

\* the page calls getCacheStatus, clearCache, clearAppCache or
\* forceCacheUpdate; `forReset` when resetPWA makes the call
StartCall(c, kind, forReset) ==
  /\ page.loaded
  /\ calls[c].pc = "idle"
  /\ \A d \in Calls : d < c => calls[d].pc # "idle"
  /\ LET active == ActiveWorker
         posts == active # 0
         waits == posts \/ kind = "getCacheStatus"
     IN /\ calls' = [calls EXCEPT ![c] =
                       [NoCall EXCEPT
                          !.kind = kind, !.reset = forReset, !.posted = posts,
                          !.pc = IF waits THEN "waiting" ELSE "done",
                          !.result = IF waits THEN ""
                                     ELSE IF kind = "forceCacheUpdate" THEN "failure"
                                     ELSE "success"]]
        /\ mailbox' = IF posts
                        THEN mailbox \cup {Message(CommandOf(kind), c, active)}
                        ELSE mailbox
        /\ IF waits \/ kind = "forceCacheUpdate"
             THEN UNCHANGED <<cacheNames, entries>>
             ELSE IF kind = "clearCache" THEN DeleteAllFromPage
             ELSE DeleteAppFromPage
  /\ last' = [Event(kind, 0, last.op) EXCEPT !.gone = cacheNames \ cacheNames']
  /\ UNCHANGED <<config, shell, awaiting, status, skipWaitingFlag, controller, pending, promoted,
                 ports>>

Call(c, kind) ==
  /\ StartCall(c, kind, FALSE)
  /\ UNCHANGED page

\* a message handler whose cache operation rejects: the catch block posts
\* the failure
CommandFails(b, type) ==
  /\ status[b] = "Active"
  /\ last' = [Event(type, b, last.op) EXCEPT
                !.reply = [NoReply EXCEPT !.sent = TRUE, !.error = TRUE]]
  /\ UNCHANGED <<config, shell, awaiting, status, skipWaitingFlag, controller, cacheNames, entries,
                 pending>>

\* what the handler of message m does to the worker and the stores; `ok`
\* when no cache operation rejects
HandleCommand(m, ok) ==
  IF ~ok /\ m.type # "FORCE_UPDATE" THEN CommandFails(m.to, m.type)
  ELSE CASE m.type = "CLEAR_CACHE" -> ClearCache(m.to)
         [] m.type = "CLEAR_APP_CACHE" -> ClearAppCache(m.to)
         [] m.type = "FORCE_UPDATE" -> ForceUpdate(m.to, IF ok THEN {} ELSE {IconUrl})
         [] m.type = "GET_CACHE_INFO" -> GetCacheInfo(m.to)

\* a reply on a port: the payload, the command it answers, the port that
\* came with that command and whether the cache operations of the handler
\* went through
Reply(payload, type, port, ok) ==
  [payload |-> payload, type |-> type, for |-> port, ok |-> ok]

\* variant with a fault: no catch block, so a handler whose cache operation
\* rejects posts nothing
OnMessageNoCatch(m, ok) ==
  /\ m \in mailbox
  /\ HandleCommand(m, ok)
  /\ mailbox' = mailbox \ {m}
  /\ ports' = IF last'.reply.sent /\ ok
                THEN [ports EXCEPT ![m.port] =
                        Append(@, Reply(last'.reply, last'.op, m.port, ok))]
                ELSE ports
  /\ UNCHANGED <<promoted, page, calls>>

\* variant with a fault: the reply port is kept in a variable shared by
\* the handlers, so the port of the newest message is used
OnMessageSharedPort(m, ok) ==
  /\ m \in mailbox
  /\ HandleCommand(m, ok)
  /\ mailbox' = mailbox \ {m}
  /\ LET newest == CHOOSE p \in {x.port : x \in mailbox} :
                     \A q \in {x.port : x \in mailbox} : q <= p
     IN ports' = IF last'.reply.sent
                   THEN [ports EXCEPT ![newest] =
                           Append(@, Reply(last'.reply, last'.op, m.port, ok))]
                   ELSE ports
  /\ UNCHANGED <<promoted, page, calls>>

\* the message event of a cache command: the handler runs and posts its
\* reply on event.ports[0]
OnMessage(m, ok) ==
  /\ m \in mailbox
  /\ HandleCommand(m, ok)
  /\ mailbox' = mailbox \ {m}
  /\ ports' = IF last'.reply.sent
                THEN [ports EXCEPT ![m.port] =
                        Append(@, Reply(last'.reply, last'.op, m.port, ok))]
                ELSE ports
  /\ UNCHANGED <<promoted, page, calls>>

\* port1.onmessage of call c: the first reply settles the call; one that
\* comes after the timer fired changes nothing
DeliverReply(c) ==
  /\ calls[c].pc \in {"waiting", "done"}
  /\ ~calls[c].got
  /\ ports[c] # <<>>
  /\ LET r == Head(ports[c]).payload
         kind == calls[c].kind
     IN calls' = [calls EXCEPT ![c] =
          IF calls[c].pc = "done" THEN [@ EXCEPT !.got = TRUE]
          ELSE IF kind = "getCacheStatus" /\ r.success
            THEN [@ EXCEPT !.got = TRUE, !.pc = "enumerating", !.names = cacheNames]
          ELSE [@ EXCEPT !.got = TRUE, !.pc = "done",
                         !.result = IF r.success THEN "success" ELSE "failure"]]
  /\ last' = Event("reply", 0, last.op)
  /\ UNCHANGED <<config, shell, awaiting, status, skipWaitingFlag, controller, cacheNames, entries,
                 pending, promoted, page, mailbox, ports>>

\* getCacheStatus opens every cache it enumerated to count its entries;
\* caches.open creates a cache that is gone by then
Enumerate(c) ==
  /\ calls[c].pc = "enumerating"
  /\ cacheNames' = cacheNames \cup calls[c].names
  /\ calls' = [calls EXCEPT ![c] = [@ EXCEPT !.pc = "done", !.result = "success"]]
  /\ last' = Event("enumerate", 0, last.op)
  /\ UNCHANGED <<config, shell, awaiting, status, skipWaitingFlag, controller, entries, pending,
                 promoted, page, mailbox, ports>>

\* variant with a fault: clearAppCache falls back to deleting like clearCache
TimeoutFallbackForAll(c, ok) ==
  /\ calls[c].pc = "waiting"
  /\ LET kind == calls[c].kind
     IN /\ calls' = [calls EXCEPT ![c] =
                       [@ EXCEPT !.pc = "done", !.timedOut = TRUE,
                                 !.result = IF kind \in {"clearCache", "clearAppCache"} /\ ok
                                              THEN "success" ELSE "failure",
                                 !.after = CASE kind \in {"clearCache", "clearAppCache"} ->
                                                  IF ok THEN {"keys", "delete"} ELSE {"keys"}
                                             [] kind = "getCacheStatus" -> {"keys"}
                                             [] OTHER -> {}]]
        /\ IF kind \in {"clearCache", "clearAppCache"} /\ ok
             THEN DeleteAllFromPage
             ELSE UNCHANGED <<cacheNames, entries>>
  /\ last' = [Event("timeout", 0, last.op) EXCEPT !.gone = cacheNames \ cacheNames']
  /\ UNCHANGED <<config, shell, awaiting, status, skipWaitingFlag, controller, pending, promoted,
                 page, mailbox, ports>>

\* the timer of call c fires before a reply: the promise rejects and the
\* catch block of the method runs; `ok` when the caches.keys() of the
\* fallback of clearCache resolves
Timeout(c, ok) ==
  /\ calls[c].pc = "waiting"
  /\ LET kind == calls[c].kind
     IN /\ calls' = [calls EXCEPT ![c] =
                       [@ EXCEPT !.pc = "done", !.timedOut = TRUE,
                                 !.result = IF kind = "clearCache" /\ ok
                                              THEN "success" ELSE "failure",
                                 !.after = CASE kind = "clearCache" ->
                                                  IF ok THEN {"keys", "delete"} ELSE {"keys"}
                                             [] kind = "getCacheStatus" -> {"keys"}
                                             [] OTHER -> {}]]
        /\ IF kind = "clearCache" /\ ok
             THEN DeleteAllFromPage
             ELSE UNCHANGED <<cacheNames, entries>>
  /\ last' = [Event("timeout", 0, last.op) EXCEPT !.gone = cacheNames \ cacheNames']
  /\ UNCHANGED <<config, shell, awaiting, status, skipWaitingFlag, controller, pending, promoted,
                 page, mailbox, ports>>

\* resetPWA starts: it calls clearCache and awaits the result
ResetPWA(c) ==
  /\ page.reset = "idle"
  /\ StartCall(c, "clearCache", TRUE)
  /\ page' = [page EXCEPT !.reset = "clearing", !.trace = <<"ClearAll">>]

\* variant with a fault: a failed unregistration ends the reset
UnregisterOrAbort(ok) ==
  /\ page.reset = "clearing"
  /\ \E c \in Calls : calls[c].reset /\ calls[c].pc = "done"
  /\ page' = [page EXCEPT !.reset = IF ok THEN "deregistered" ELSE "aborted",
                          !.trace = Append(@, "Deregister"),
                          !.unregistered = ok]
  /\ last' = Event("unregister", 0, last.op)
  /\ UNCHANGED <<config, shell, awaiting, status, skipWaitingFlag, controller, cacheNames, entries,
                 pending, promoted, calls, mailbox, ports>>

\* resetPWA goes on once clearCache has returned: unregisterServiceWorker
\* unregisters every registration (`ok`) or catches the error and returns
\* false; the workers stay in place until the page is gone
Unregister(ok) ==
  /\ page.reset = "clearing"
  /\ \E c \in Calls : calls[c].reset /\ calls[c].pc = "done"
  /\ page' = [page EXCEPT !.reset = "deregistered",
                          !.trace = Append(@, "Deregister"),
                          !.unregistered = ok]
  /\ last' = Event("unregister", 0, last.op)
  /\ UNCHANGED <<config, shell, awaiting, status, skipWaitingFlag, controller, cacheNames, entries,
                 pending, promoted, calls, mailbox, ports>>

\* window.location.reload() at the end of resetPWA: the page and its
\* unsettled calls are gone, and an unregistered registration is cleared
\* with its workers
Reload ==
  /\ page.reset = "deregistered"
  /\ page' = [NoPage EXCEPT !.shown = page.shown, !.under = page.under,
                            !.reset = "reloaded",
                            !.trace = Append(page.trace, "Reload"),
                            !.unregistered = page.unregistered]
  /\ calls' = [c \in Calls |->
                 IF calls[c].pc \in {"waiting", "enumerating"}
                   THEN [calls[c] EXCEPT !.pc = "gone"]
                   ELSE calls[c]]
  /\ IF page.unregistered
       THEN /\ status' = [b \in Builds |->
                            IF status[b] \in {"Installing", "Waiting", "Active"}
                              THEN "Superseded" ELSE status[b]]
            /\ controller' = 0
            /\ promoted' = {}
       ELSE UNCHANGED <<status, controller, promoted>>
  /\ last' = Event("reload", 0, last.op)
  /\ UNCHANGED <<config, shell, awaiting, skipWaitingFlag, cacheNames, entries, pending, mailbox,
                 ports>>

\* a registration exists: some worker is installing, waiting or active
RegistrationExists ==
  \E a \in Builds : status[a] \in {"Installing", "Waiting", "Active"}

\* build b is found by the page's register() or, once a registration
\* exists, by the update check of a navigation, and starts installing:
\* updatefound fires on the registration
UpdateFound(b) ==
  /\ page.loaded \/ RegistrationExists
  /\ Register(b)
  /\ OnUpdateFound(b)
  /\ UNCHANGED <<promoted, calls, mailbox, ports>>

\* the install of build b ends: statechange fires on the worker
Installed(b) ==
  /\ InstallEvent(b, {})
  /\ OnStateChange(b)
  /\ promoted' = {a \in promoted : status'[a] = "Waiting"}
  /\ UNCHANGED <<calls, mailbox, ports>>

\* ---------------------------------------------------------- specifications
InitWith(histories, docs, foreign) ==
  /\ isDevelopment \in BOOLEAN
  /\ history \in histories
  /\ entryDoc \in docs
  /\ status = [b \in Builds |-> "Unregistered"]
  /\ skipWaitingFlag = [b \in Builds |-> FALSE]
  /\ controller = 0
  /\ cacheNames \in {{}} \cup foreign
  /\ entries = [n \in CacheNames |-> {}]
  /\ pending = {}
  /\ last = Event("init", 0, "")
  /\ promoted = {}
  /\ page = NoPage
  /\ calls = [c \in Calls |-> NoCall]
  /\ mailbox = {}
  /\ ports = [c \in Calls |-> <<>>]
  /\ built = NoBuild
  /\ shell = NoShell
  /\ info = NoInfo
  /\ flight = NoFlight

\* the waiting workers among ws
StillWaiting(ws) == {a \in ws : status'[a] = "Waiting"}

\* a worker event that no page observes
Unobserved == promoted' = StillWaiting(promoted) /\ UNCHANGED pageSide

\* the message SKIP_WAITING reaches worker b
Promote(b) == promoted' = StillWaiting(promoted \cup {b}) /\ UNCHANGED pageSide

Init == InitWith(BuildHistories, {RelativeDoc}, {{ForeignCache}})

Next ==
  \/ \E b \in Builds : Register(b) /\ Unobserved
  \/ \E b \in Builds : InstallEvent(b, {}) /\ Unobserved
  \/ \E b \in Builds : ActivateEvent(b) /\ Unobserved
  \/ \E b \in Builds : SkipWaiting(b) /\ Promote(b)
  \/ \E b \in Builds : ClearCache(b) /\ Unobserved
  \/ \E b \in Builds : ClearAppCache(b) /\ Unobserved
  \/ \E b \in Builds : ForceUpdate(b, {}) /\ Unobserved
  \/ \E b \in Builds : GetCacheInfo(b) /\ Unobserved

\* the lifecycle of MaxVersion builds and the commands sent to them, over
\* a reliable network and without page requests
Spec == Init /\ [][Next]_vars

InitContent == InitWith({PlaceholderHistory}, EntryDocs, {})

NextContent ==
  \/ \E b \in ContentBuilds : Register(b) /\ Unobserved
  \/ \E b \in ContentBuilds, fails \in SUBSET FailableUrls :
       InstallEvent(b, fails) /\ Unobserved
  \/ \E b \in ContentBuilds : ActivateEvent(b) /\ Unobserved
  \/ \E b \in ContentBuilds : ClearCache(b) /\ Unobserved
  \/ \E b \in ContentBuilds : ClearAppCache(b) /\ Unobserved
  \/ \E b \in ContentBuilds, fails \in SUBSET FailableUrls :
       ForceUpdate(b, fails) /\ Unobserved
  \/ \E b \in ContentBuilds : GetCacheInfo(b) /\ Unobserved

\* MaxContentVersion builds whose installs and forced updates meet failing
\* fetches, for every entry document
SpecContent == InitContent /\ [][NextContent]_vars

InitFetch == InitWith({PlaceholderHistory}, {RelativeDoc}, {})

NextFetch ==
  \/ \E b \in FetchBuilds : Register(b) /\ Unobserved
  \/ \E b \in FetchBuilds : InstallEvent(b, {}) /\ Unobserved
  \/ \E b \in FetchBuilds : ActivateEvent(b) /\ Unobserved
  \/ \E b \in FetchBuilds : ClearAppCache(b) /\ Unobserved
  \/ \E b \in FetchBuilds : ForceUpdate(b, {}) /\ Unobserved
  \/ \E b \in FetchBuilds, req \in Requests, net \in NetOutcomes :
       Fetch(b, req, net) /\ Unobserved
  \/ \E w \in pending, outcome \in WriteOutcomes :
       BackgroundWrite(w, outcome) /\ Unobserved

\* MaxFetchVersion builds serving every class of page request
SpecFetch == InitFetch /\ [][NextFetch]_vars


\* a production origin with its page
InitClient ==
  /\ InitWith({PlaceholderHistory}, {RelativeDoc}, {{ForeignCache}})
  /\ ~isDevelopment

NextCommands ==
  \/ PageLoad
  \/ \E b \in CommandBuilds : UpdateFound(b)
  \/ \E b \in CommandBuilds : Installed(b)
  \/ \E b \in CommandBuilds : ActivateEvent(b) /\ Unobserved
  \/ \E c \in Calls, kind \in Kinds : Call(c, kind)
  \/ \E c \in Calls : ResetPWA(c)
  \/ \E m \in mailbox, ok \in BOOLEAN : OnMessage(m, ok)
  \/ \E c \in Calls : DeliverReply(c)
  \/ \E c \in Calls : Enumerate(c)
  \/ \E c \in Calls, ok \in BOOLEAN : Timeout(c, ok)
  \/ \E ok \in BOOLEAN : Unregister(ok)
  \/ Reload

\* one page issuing MaxCalls cache commands and a reset to the worker of
\* MaxCommandVersion builds, in any interleaving of page, timers and worker
SpecCommands == InitClient /\ [][NextCommands]_vars

\* what the page itself does to carry resetPWA on
ResetStep ==
  \/ \E c \in Calls, ok \in BOOLEAN : calls[c].reset /\ Timeout(c, ok)
  \/ \E c \in Calls : calls[c].reset /\ DeliverReply(c)
  \/ \E ok \in BOOLEAN : Unregister(ok)
  \/ Reload

NextPage ==
  \/ PageLoad
  \/ Navigate
  \/ \E b \in ClientBuilds : UpdateFound(b)
  \/ \E b \in ClientBuilds : Installed(b)
  \/ \E b \in ClientBuilds : ActivateEvent(b) /\ Unobserved
  \/ \E c \in Calls : ResetPWA(c)
  \/ \E m \in mailbox, ok \in BOOLEAN : OnMessage(m, ok)
  \/ \E c \in Calls : DeliverReply(c)
  \/ \E c \in Calls, ok \in BOOLEAN : Timeout(c, ok)
  \/ \E ok \in BOOLEAN : Unregister(ok)
  \/ Reload

\* one page that is loaded, reset and loaded again while MaxClientVersion
\* builds are deployed
SpecPage == InitClient /\ [][NextPage]_vars

\* the same with timers that fire, promises that settle and a reload that
\* happens: the page's own steps of resetPWA are not postponed for ever
SpecPageFair == SpecPage /\ WF_vars(ResetStep)


\* ------------------------------------------------------------- properties
AppCaches == getAppCaches(cacheNames)
ActiveBuilds == {b \in Builds : status[b] = "Active"}
\* the builds whose install handler has run to its end
InstalledBuilds == {b \in Builds : status[b] \in {"Waiting", "Active", "Superseded"}}

C4_FiveMostRecentRemain ==
  (last.op = "install" /\ Cardinality(InstalledBuilds) > MAX_CACHES) =>
    /\ Cardinality(AppCaches) = MAX_CACHES
    /\ AppCaches =
         {n \in {CACHE_NAME(b) : b \in InstalledBuilds} :
            SortedIndex(n, {CACHE_NAME(b) : b \in InstalledBuilds}) < MAX_CACHES}

\* C5 as stated: a request that is cross-origin or not a GET is not
\* answered by the handler and starts no cache write.
C5_ForeignNotIntercepted ==
  (last.op = "fetch" /\ (last.req.method # "GET" \/ ~SameOrigin(last.req.url))) =>
    /\ ~last.responded
    /\ last.wrote = {}

\* C6: no cache holds an entry keyed by /robots.txt or /sitemap.xml.
C6_NoPassthroughEntry ==
  \A n \in CacheNames : \A k \in entries[n] :
    ~(k.dir = "/" /\ k.stem \in {"robots", "sitemap"})

\* robots.txt was just served from the network next to a filled cache
C6_Witness ==
  /\ last.op = "fetch"
  /\ last.req.url = RobotsUrl
  /\ last.response = "network"
  /\ \E n \in cacheNames : entries[n] # {}

\* the same-origin scripts and stylesheets the entry document references
C7_ReferencedAssets ==
  {Url(SelfHost, "", "/" \o r.dir, r.stem, r.ext, r.query) :
     r \in {x \in entryDoc :
              /\ x.prefix \in {"./", "/", ""}
              /\ x.tag = "script" \/ (x.tag = "link" /\ x.rel = "stylesheet")}}

\* the script sources and the link targets ending in .css that hold no
\* "://", as the URLs they resolve to
C7_SchemelessAssets ==
  {Url(IF r.prefix = ProtocolRelative THEN CdnHost ELSE SelfHost, "",
       "/" \o r.dir, r.stem, r.ext, r.query) :
     r \in {x \in entryDoc :
              /\ x.prefix \in {"./", "/", "", ProtocolRelative}
              /\ x.tag = "script" \/ (x.tag = "link" /\ x.ext = ".css" /\ x.query = "")}}

\* C7 as stated: after an install in which every fetch succeeds the new
\* cache holds exactly the static list, the referenced same-origin scripts
\* and stylesheets, and the entry document under / and /index.html.
C7_InstallKeysExact ==
  (last.op = "install" /\ last.fails = {}) =>
    /\ CACHE_NAME(last.by) \in cacheNames
    /\ entries[CACHE_NAME(last.by)] =
         STATIC_CACHE_URLS \cup C7_ReferencedAssets \cup {RootUrl, IndexUrl}

\* C7 amended: in production, after an install in which every fetch
\* succeeds the new cache holds exactly the static list, every script source
\* and every link target ending in .css that holds no "://", and the entry
\* document under / and /index.html.
C7_ProductionInstallKeysExact ==
  (~isDevelopment /\ last.op = "install" /\ last.fails = {}) =>
    /\ CACHE_NAME(last.by) \in cacheNames
    /\ entries[CACHE_NAME(last.by)] =
         STATIC_CACHE_URLS \cup C7_SchemelessAssets \cup {RootUrl, IndexUrl}

\* a production install that found a script and a stylesheet to add
C7_Witness ==
  /\ ~isDevelopment
  /\ last.op = "install"
  /\ last.fails = {}
  /\ {AppJsUrl, AppCssUrl, RootUrl, IndexUrl} \subseteq entries[CACHE_NAME(last.by)]

\* C8: whatever fetches fail, the install completes and its cache holds every
\* static URL whose fetch succeeded; when the entry document cannot be
\* fetched no discovered asset is added.
C8_InstallSurvivesFailures ==
  last.op = "install" =>
    /\ status[last.by] = "Waiting"
    /\ STATIC_CACHE_URLS \cap last.fetched \subseteq entries[CACHE_NAME(last.by)]
    /\ IndexUrl \notin last.fetched =>
         entries[CACHE_NAME(last.by)] \subseteq STATIC_CACHE_URLS

\* an install that lost the entry document and an icon and kept the rest
C8_Witness ==
  /\ last.op = "install"
  /\ {IndexUrl, IconUrl} \subseteq last.fails
  /\ entryDoc = RelativeDoc
  /\ CACHE_NAME(last.by) \in cacheNames
  /\ {RootUrl, FaviconSvgUrl} \subseteq entries[CACHE_NAME(last.by)]

\* C9 as stated: a forced update in which some but not all fetches fail
\* leaves the entries whose fetch succeeded and replies success.
C9_ForceUpdateKeepsSuccesses ==
  (/\ last.op = "FORCE_UPDATE"
   /\ STATIC_CACHE_URLS \cap last.fails # {}
   /\ STATIC_CACHE_URLS \cap last.fetched # {}) =>
    /\ last.reply.success
    /\ STATIC_CACHE_URLS \cap last.fetched \subseteq entries[CACHE_NAME(last.by)]

\* C10: a status query handled right after CLEAR_APP_CACHE reports no
\* application cache and no current cache.
C10_StatusAfterClearOwned ==
  (last.op = "GET_CACHE_INFO" /\ last.follows = "CLEAR_APP_CACHE") =>
    /\ last.reply.sent
    /\ last.reply.appCaches = {}
    /\ ~last.reply.currentCacheExists

\* such a query, with the foreign cache still in place
C10_Witness ==
  /\ last.op = "GET_CACHE_INFO"
  /\ last.follows = "CLEAR_APP_CACHE"
  /\ ForeignCache \in cacheNames

\* C11: a CLEAR_APP_CACHE handled right after another CLEAR_APP_CACHE
\* replies success with a cleared count of 0 and leaves every cache, the
\* foreign ones included, as it was.
C11_ClearOwnedIdempotent ==
  [][(last.op = "CLEAR_APP_CACHE" /\ last'.op = "CLEAR_APP_CACHE")
       => /\ last'.reply.sent
          /\ last'.reply.success
          /\ last'.reply.clearedCaches = 0
          /\ cacheNames' = cacheNames
          /\ entries' = entries]_vars

\* a second CLEAR_APP_CACHE in a row has been answered while a foreign
\* cache exists
C11_Witness ==
  /\ last.op = "CLEAR_APP_CACHE"
  /\ last.follows = "CLEAR_APP_CACHE"
  /\ last.reply.clearedCaches = 0
  /\ ForeignCache \in cacheNames

\* a navigation that reaches the navigation branch of the handler: a GET of
\* this origin that none of the earlier branches takes
ShellNavigation(req) ==
  /\ req.method = "GET"
  /\ req.mode = "navigate"
  /\ StartsWithOrigin(req.url)
  /\ ~IsStaticFile(req.url)
  /\ ~IsFavicon(req.url)
  /\ ~UrlIncludes(req.url, "manifest", ".json")

C14_PromotedOnlyOnCommandOrHandover ==
  [][\A b \in Builds :
       (status[b] = "Waiting" /\ status'[b] = "Active")
         => (b \in promoted \/ controller = 0)]_vars

\* C20: an install step of another worker leaves the cache of the worker
\* that is Active at that time in place and with the entries it had.
C20_InstallSparesActiveStore ==
  [][\A a \in Builds, b \in Builds :
       ( /\ status[a] = "Active"
         /\ a # b
         /\ status[b] = "Installing"
         /\ status'[b] # "Installing"
         /\ CACHE_NAME(a) \in cacheNames )
         => /\ CACHE_NAME(a) \in cacheNames'
            /\ entries'[CACHE_NAME(a)] = entries[CACHE_NAME(a)]]_vars

C15_OnlyWorkerMutates ==
  [][(cacheNames' # cacheNames \/ entries' # entries) => last'.by \in Builds]_vars

\* C15 as the code has it: a step of the page never adds an entry to a
\* cache, and it changes the caches only when clearCache finds no active
\* worker (every cache goes), when clearAppCache finds none (the caches
\* named after the application go), when the timer of clearCache fires
\* before the reply (every cache goes), or when getCacheStatus opens a name
\* it enumerated that has been deleted since (the cache is back, empty).
C15_PageMutations ==
  [][(last'.by = 0 /\ (cacheNames' # cacheNames \/ entries' # entries))
       => /\ \A n \in CacheNames : entries'[n] \subseteq entries[n]
          /\ \/ /\ last'.op = "clearCache"
                /\ ActiveWorker = 0
                /\ cacheNames' = {}
             \/ /\ last'.op = "clearAppCache"
                /\ ActiveWorker = 0
                /\ cacheNames' = {n \in cacheNames : ~IncludesAppName(n)}
             \/ /\ last'.op = "timeout"
                /\ \E c \in Calls : /\ calls[c].kind = "clearCache"
                                    /\ calls[c].pc = "waiting"
                                    /\ calls'[c].timedOut
                /\ cacheNames' = {}
             \/ /\ last'.op = "enumerate"
                /\ \E c \in Calls : /\ calls[c].kind = "getCacheStatus"
                                    /\ calls[c].pc = "enumerating"
                                    /\ cacheNames' = cacheNames \cup calls[c].names
                /\ entries' = entries
                /\ \A n \in cacheNames' \ cacheNames : entries'[n] = {}]_vars

\* clearAppCache has found no active worker and deleted the application
\* caches itself, leaving the foreign cache
C15_Witness ==
  /\ last.op = "clearAppCache"
  /\ last.by = 0
  /\ last.gone # {}
  /\ ForeignCache \in cacheNames
  /\ \E c \in Calls : calls[c].kind = "clearAppCache" /\ ~calls[c].posted

\* C16: whatever has been posted on the reply port of a call is the reply
\* to the command that was posted with that port, and it answers the
\* command of that call.
C16_RepliesOnOwnChannel ==
  \A c \in Calls :
    \A i \in 1..Len(ports[c]) :
      /\ ports[c][i].for = c
      /\ ports[c][i].type = CommandOf(calls[c].kind)

\* two calls of different commands are waiting at once and both have
\* their reply on their port
C16_Witness ==
  \E c \in Calls, d \in Calls :
    /\ calls[c].pc = "waiting"
    /\ calls[d].pc = "waiting"
    /\ calls[c].kind # calls[d].kind
    /\ ports[c] # <<>>
    /\ ports[d] # <<>>

\* the commands of the calls that are still in the mailbox
Unhandled(c) == {m \in mailbox : m.port = c}

\* C17: a command gets no reply while it is in the mailbox and exactly one
\* once its handler has run; the reply of a handler whose cache operation
\* rejected is success false with an error, that of any other is success
\* true without one.
C17_ExactlyOneReply ==
  \A c \in Calls :
    /\ Len(ports[c]) <= 1
    /\ (calls[c].posted /\ Unhandled(c) = {}) <=> Len(ports[c]) = 1
    /\ \A i \in 1..Len(ports[c]) :
         LET r == ports[c][i]
         IN /\ r.payload.sent
            /\ r.ok => (r.payload.success /\ ~r.payload.error)
            /\ ~r.ok => (~r.payload.success /\ r.payload.error)

\* a handler whose cache operation rejected has replied, and the page has
\* taken the reply as the failure of its call
C17_Witness ==
  \E c \in Calls :
    /\ Len(ports[c]) = 1
    /\ ~ports[c][1].ok
    /\ ~ports[c][1].payload.success
    /\ calls[c].got
    /\ ~calls[c].timedOut
    /\ calls[c].result = "failure"

\* C18: showUpdateAvailable has run exactly once for every build that
\* finished installing while a worker controlled the page, and never for a
\* build that finished installing while none did.
C18_SignalOncePerControlledInstall ==
  \A b \in Builds :
    /\ page.under[b] = "controlled" => page.shown[b] = 1
    /\ page.under[b] = "uncontrolled" => page.shown[b] = 0

\* the call of clearCache that resetPWA made has returned
ResetCleared == \E c \in Calls : calls[c].reset /\ calls[c].pc = "done"

\* C19: the steps of resetPWA are ClearAll, Deregister, Reload in this
\* order, deregistration starts only when clearCache has returned, and
\* a reset that has started reaches the reload, also when clearCache
\* timed out or failed and when the unregistration failed.
C19_ResetOrderAndReload ==
  /\ [](/\ page.reset = "idle" => page.trace = <<>>
        /\ page.reset = "clearing" => page.trace = <<"ClearAll">>
        /\ page.reset = "deregistered"
             => (page.trace = <<"ClearAll", "Deregister">> /\ ResetCleared)
        /\ page.reset = "reloaded"
             => (page.trace = <<"ClearAll", "Deregister", "Reload">> /\ ResetCleared)
        /\ page.reset \in {"idle", "clearing", "deregistered", "reloaded"})
  /\ (page.reset = "clearing") ~> (page.reset = "reloaded")

\* a reset has reached the reload although its clearCache timed out and
\* its unregistration failed
C19_Witness ==
  /\ page.reset = "reloaded"
  /\ ~page.unregistered
  /\ \E c \in Calls : calls[c].reset /\ calls[c].timedOut

\* ------------------------------------------------------------ build script
\* generateServiceWorker(): one run of the build script for appVersion,
\* whose clock reads `now` in generateCacheVersion and `now + tick` in
\* generateBuildHash, which is called after it
GenerateServiceWorker(appVersion, now, tick, randomBytes) ==
  /\ built' =
       [appVersion |-> appVersion, buildTimestamp |-> now,
        hashTimestamp |-> now + tick, randomBytes |-> randomBytes,
        cacheVersion |->
          generateCacheVersion(appVersion, now,
                               generateBuildHash(now + tick, randomBytes))]
  /\ UNCHANGED <<isDevelopment, history, entryDoc, status, skipWaitingFlag,
                 controller, cacheNames, entries, pending, last, promoted,
                 pageSide, shell, awaiting>>

InitBuild == InitWith({PlaceholderHistory}, {RelativeDoc}, {})

NextBuild ==
  \E appVersion \in AppVersions, now \in BuildClock, tick \in 0..MaxTick,
     randomBytes \in 0..MaxRandom :
    GenerateServiceWorker(appVersion, now, tick, randomBytes)

\* the build script run again and again, at any time and on any version
SpecBuild == InitBuild /\ [][NextBuild]_vars

\* C22 as stated: the version string is determined by appVersion, the build
\* timestamp and the random bytes, the hash being taken from that one
\* timestamp and the random bytes.
C22_PureInThreeInputs ==
  built # NoBuild =>
    built.cacheVersion =
      generateCacheVersion(built.appVersion, built.buildTimestamp,
        generateBuildHash(built.buildTimestamp, built.randomBytes))

\* C22: the version string is determined by appVersion, the clock reading of
\* generateCacheVersion, the later clock reading of generateBuildHash and
\* the random bytes: it is appVersion-buildHash when appVersion is neither
\* "0.0.0" nor "1.0.0", and appVersion-base36(floor(buildTimestamp / 1000))-
\* buildHash otherwise, where buildHash is taken from the second clock
\* reading and the random bytes.
C22_VersionOfInputs ==
  built # NoBuild =>
    LET buildHash == generateBuildHash(built.hashTimestamp, built.randomBytes)
        seconds == built.buildTimestamp \div 1000
    IN /\ built.hashTimestamp >= built.buildTimestamp
       /\ built.cacheVersion =
            IF built.appVersion \notin {V000, V100}
              THEN built.appVersion \o <<Dash>> \o buildHash
              ELSE built.appVersion \o <<Dash>> \o Base36(seconds)
                     \o <<Dash>> \o buildHash

\* a placeholder version stamped when the clock moved between the readings
C22_Witness ==
  /\ built.appVersion = V100
  /\ built.hashTimestamp > built.buildTimestamp
  /\ built.cacheVersion # <<>>

\* C24: no prune pass deletes the store of the generation that runs it,
\* whatever the other application stores are and in either environment.
C24_PruneSparesOwnStore ==
  last.pruned => CACHE_NAME(last.by) \notin last.gone

\* ------------------------------------------------- activation that fails
\* variant with a fault: the catch block does not claim the clients
ActivateEventCatchNoClaim(b, done) ==
  /\ status[b] = "Waiting"
  /\ skipWaitingFlag[b] \/ controller = 0
  /\ done \subseteq cleanupOldCaches(b, cacheNames)
  /\ done # cleanupOldCaches(b, cacheNames) \/ done = {}
  /\ status' = [a \in Builds |->
                  IF a = b THEN "Active"
                  ELSE IF status[a] = "Active" THEN "Superseded"
                  ELSE status[a]]
  /\ cacheNames' = cacheNames \ done
  /\ entries' = Without(entries, done)
  /\ last' = [Event("activate", b, last.op) EXCEPT
                !.gone = done, !.existed = currentCacheExists(b, cacheNames)]
  /\ UNCHANGED <<config, shell, awaiting, controller, skipWaitingFlag, pending>>

\* the activate event of the worker of build b when cleanupOldCaches throws:
\* caches.keys() rejected and nothing was deleted, or a caches.delete
\* rejected and `done` are the deletions that succeeded beside it.  The catch
\* block claims the clients and posts nothing.
ActivateEventCatch(b, done) ==
  /\ status[b] = "Waiting"
  /\ skipWaitingFlag[b] \/ controller = 0
  /\ done \subseteq cleanupOldCaches(b, cacheNames)
  /\ done # cleanupOldCaches(b, cacheNames) \/ done = {}
  /\ status' = [a \in Builds |->
                  IF a = b THEN "Active"
                  ELSE IF status[a] = "Active" THEN "Superseded"
                  ELSE status[a]]
  /\ cacheNames' = cacheNames \ done
  /\ entries' = Without(entries, done)
  /\ last' = [Event("activate", b, last.op) EXCEPT
                !.gone = done, !.existed = currentCacheExists(b, cacheNames)]
  /\ controller' = b
  /\ UNCHANGED <<config, shell, awaiting, skipWaitingFlag, pending>>

InitActivate ==
  InitWith({PlaceholderHistory}, {RelativeDoc}, {{ForeignCache}})

NextActivate ==
  \/ \E b \in ContentBuilds : Register(b) /\ Unobserved
  \/ \E b \in ContentBuilds : InstallEvent(b, {}) /\ Unobserved
  \/ \E b \in ContentBuilds : ActivateEvent(b) /\ Unobserved
  \/ \E b \in ContentBuilds, done \in SUBSET CacheNames :
       ActivateEventCatch(b, done) /\ Unobserved
  \/ \E b \in ContentBuilds : ForceUpdate(b, {}) /\ Unobserved
  \/ \E b \in ContentBuilds : ClearCache(b) /\ Unobserved
  \/ \E b \in ContentBuilds : ClearAppCache(b) /\ Unobserved

\* MaxContentVersion builds whose activation may meet a failing cache store
SpecActivate == InitActivate /\ [][NextActivate]_vars

C26_ForceUpdateEqualsInstall ==
  (/\ last.op = "FORCE_UPDATE"
   /\ ~isDevelopment
   /\ last.fails = {}
   /\ last.reply.success
   /\ CACHE_NAME(last.by) \in cacheNames)
  => entries[CACHE_NAME(last.by)] = InstallKeys({}, {})

\* the requests that a cache can answer: a navigation, a script, an image,
\* the manifest
CachedRequests ==
  {Request("GET", RootUrl, "navigate", "document"),
   Request("GET", AppJsUrl, "no-cors", "script"),
   Request("GET", PhotoUrl, "no-cors", "image"),
   Request("GET", ManifestUrl, "cors", "manifest")}

\* ------------------------------------------------ requests and the store
InitStore == InitWith({PlaceholderHistory}, {RelativeDoc}, {})

NextStore ==
  \/ \E b \in FetchBuilds : Register(b) /\ Unobserved
  \/ \E b \in FetchBuilds : InstallEvent(b, {}) /\ Unobserved
  \/ \E b \in FetchBuilds : ActivateEvent(b) /\ Unobserved
  \/ \E b \in FetchBuilds : ClearAppCache(b) /\ Unobserved
  \/ \E b \in FetchBuilds, req \in CachedRequests, net \in NetOutcomes,
        store \in StoreOutcomes :
       FetchStore(b, req, net, store) /\ Unobserved
  \/ \E w \in pending, outcome \in WriteOutcomes :
       BackgroundWrite(w, outcome) /\ Unobserved

\* MaxFetchVersion builds serving the requests that a cache can answer
\* while the cache store may reject any operation
SpecStore == InitStore /\ [][NextStore]_vars

\* the last request was answered and started a cache write in the
\* background: the opportunistic caching of a fetched asset, the
\* revalidation of a cached asset or shell, the puts of a fetched shell or
\* manifest
StartedBackgroundWrite ==
  /\ last.op = "fetch"
  /\ last.responded
  /\ last.wrote # {}

\* the ways the background part of the write w can end: the open belongs
\* to it unless the handler awaited the open itself
BackgroundOutcomes(w) ==
  IF w.opened THEN WriteOutcomes \ {"openFails"} ELSE WriteOutcomes

ManifestRequest ==
  /\ last.op = "fetch"
  /\ ~isDevelopment
  /\ last.req.method = "GET"
  /\ StartsWithOrigin(last.req.url)
  /\ UrlIncludes(last.req.url, "manifest", ".json")

\* C27: in production every manifest-class request is answered with the
\* cached manifest, or with the network response, which is then cached, or
\* with the synthesized default manifest.
C27_ManifestOneOfThree ==
  ManifestRequest =>
    /\ last.responded
    /\ \/ last.response = "cache"
       \/ last.response = "network" /\ last.wrote # {}
       \/ last.response = "defaultManifest"

\* the last request was a production navigation for which no cached shell
\* could be obtained - no store holds it, or the store rejected the lookup -
\* and whose network fetch failed
NavigationTotalFailure ==
  /\ last.op = "fetch"
  /\ ~isDevelopment
  /\ ShellNavigation(last.req)
  /\ last.net = "fail"
  /\ \/ last.store = "matchFails"
     \/ ~CacheMatch(IndexUrl, cacheNames, entries) /\ ~CacheMatch(RootUrl, cacheNames, entries)

\* C28: in production a navigation for which no cached shell can be
\* obtained and whose network fetch fails is answered with the synthesized
\* "not yet cached" recovery document, never with a bare 503.
C28_RecoveryDocumentOnTotalFailure ==
  NavigationTotalFailure => last.responded /\ last.response = "offlinePage200"

\* the handler that ran last deleted a store: a prune pass, CLEAR_CACHE or
\* CLEAR_APP_CACHE
DeletedStores ==
  \/ last.pruned /\ last.gone # {}
  \/ last.op \in {"CLEAR_CACHE", "CLEAR_APP_CACHE"} /\ last.reply.clearedCaches > 0

\* C25: a background cache write that was in flight when a prune pass or a
\* clear command deleted stores re-creates none: when it ends right after
\* that handler, the set of stores is the one the handler left.
C25_InFlightWriteCreatesNoStore ==
  [][(DeletedStores /\ last'.op = "write") => cacheNames' = cacheNames]_vars

\* ------------------------------------------- requests across generations
InitServe == InitWith({PlaceholderHistory}, {RelativeDoc}, {})

NextServe ==
  \/ \E b \in ContentBuilds : Register(b) /\ Unobserved
  \/ \E b \in ContentBuilds : InstallEvent(b, {}) /\ Unobserved
  \/ \E b \in ContentBuilds : ActivateEvent(b) /\ Unobserved
  \/ \E b \in ContentBuilds, req \in CachedRequests, net \in NetOutcomes :
       Fetch(b, req, net) /\ Unobserved
  \/ \E w \in pending, outcome \in WriteOutcomes :
       BackgroundWrite(w, outcome) /\ Unobserved

\* MaxContentVersion builds, each in turn serving the page's requests from
\* the stores that it and the others have filled
SpecServe == InitServe /\ [][NextServe]_vars

\* the keys under which the handler looked the last request up
LookedUp ==
  IF ~isDevelopment /\ UrlIncludes(last.req.url, "manifest", ".json")
    THEN {ManifestUrl}
  ELSE IF ~isDevelopment /\ last.req.mode = "navigate"
    THEN {IndexUrl, RootUrl}
  ELSE {last.req.url}

\* C29: every response served from a cache is read from the store of the
\* generation that serves it: an entry that only another store holds is
\* never served.
C29_ServedFromOwnStore ==
  (last.op = "fetch" /\ last.response = "cache") =>
    LookedUp \cap entries[CACHE_NAME(last.by)] # {}

\* ------------------------------------------------- entry document versions
\* The origin serves the entry document of the newest build deployed.
Deployed ==
  LET out == {b \in Builds : status[b] # "Unregistered"}
  IN IF out = {} THEN 0 ELSE CHOOSE b \in out : \A a \in out : a <= b

Navigation == Request("GET", RootUrl, "navigate", "document")

\* cache.put(key, response.clone()).catch(() => {}) for each key of each
\* write a navigation started, with the document version it fetched
ShellPuts(writes, doc) ==
  UNION {{[cache |-> w.cache, key |-> k, doc |-> doc] : k \in w.keys} : w \in writes}

\* a navigation answered by the controlling production worker, lines
\* 792-923: its writes of the entry document are two puts that settle each
\* on its own
NavigateShell(b, net) ==
  /\ ~isDevelopment
  /\ status[b] = "Active"
  /\ controller = b
  /\ LET r == FetchHandler(b, Navigation, net, cacheNames, entries)
         puts == shell.puts \cup ShellPuts(r.puts, Deployed)
     IN /\ Cardinality(puts) <= MaxShellPuts
        /\ shell' = [shell EXCEPT !.puts = puts]
        /\ cacheNames' = IF r.opens THEN cacheNames \cup {CACHE_NAME(b)} ELSE cacheNames
        /\ last' = [Event("fetch", b, last.op) EXCEPT
                      !.req = Navigation, !.net = net, !.responded = r.responded,
                      !.response = r.response, !.wrote = r.puts]
  /\ UNCHANGED <<config, awaiting, status, skipWaitingFlag, controller, entries,
                 pending, promoted, pageSide>>

\* one cache.put of a shell update settles: it stores the document it
\* carries under its key, or rejects and is ignored
PutShell(p, ok) ==
  /\ p \in shell.puts
  /\ IF ok
       THEN /\ cacheNames' = cacheNames \cup {p.cache}
            /\ entries' = [entries EXCEPT ![p.cache] = @ \cup {p.key}]
            /\ shell' = [shell EXCEPT !.puts = @ \ {p},
                                      !.stored[p.cache][p.key] = p.doc]
       ELSE /\ shell' = [shell EXCEPT !.puts = @ \ {p}]
            /\ UNCHANGED <<cacheNames, entries>>
  /\ last' = Event("write", p.cache.build, last.op)
  /\ UNCHANGED <<config, awaiting, status, skipWaitingFlag, controller, pending,
                 promoted, pageSide>>

\* the version of the entry document that cache n holds under key k, 0 for
\* none: what a shell update stored, or else what the install of the
\* cache's build fetched
DocUnder(n, k) ==
  IF n \notin cacheNames \/ k \notin entries[n] THEN 0
  ELSE IF shell.stored[n][k] # 0 THEN shell.stored[n][k]
  ELSE n.build

InitShell == InitWith({PlaceholderHistory}, {RelativeDoc}, {}) /\ ~isDevelopment

NextShell ==
  \/ \E b \in ContentBuilds : Register(b) /\ Unobserved
  \/ \E b \in ContentBuilds : InstallEvent(b, {}) /\ Unobserved
  \/ \E b \in ContentBuilds : ActivateEvent(b) /\ Unobserved
  \/ \E b \in ContentBuilds, net \in NetOutcomes : NavigateShell(b, net)
  \/ \E p \in shell.puts, ok \in BOOLEAN : PutShell(p, ok)

\* MaxContentVersion builds deployed while the page navigates, with every
\* put of the entry document settling on its own
SpecShell == InitShell /\ [][NextShell]_vars

\* C30: whenever the store of the active generation holds entries under
\* both / and /index.html and every put of the shell updates has settled,
\* both hold the same version of the entry document.
C30_ShellKeysAgree ==
  \A b \in ActiveBuilds :
    (/\ shell.puts = {}
     /\ CACHE_NAME(b) \in cacheNames
     /\ ShellKeys \subseteq entries[CACHE_NAME(b)])
      => DocUnder(CACHE_NAME(b), RootUrl) = DocUnder(CACHE_NAME(b), IndexUrl)

\* ------------------------------------------------- accepting an update
\* the build whose update notification the page shows: the newest one
\* showUpdateAvailable ran for, 0 for none
UpdatedBuild ==
  IF \E b \in Builds : page.shown[b] > 0
    THEN CHOOSE b \in Builds :
           page.shown[b] > 0 /\ \A a \in Builds : page.shown[a] > 0 => a <= b
    ELSE 0

\* click on reload-btn of the update notification (pwaManager.js 232-257):
\* the handler calls clearCache and races it against a timer of 3 s
AcceptUpdate(c) ==
  /\ page.update = "idle"
  /\ UpdatedBuild # 0
  /\ StartCall(c, "clearCache", FALSE)
  /\ page' = [page EXCEPT !.update = "clearing"]

\* the handler goes on (258-271) when clearCache has returned or, `raced`,
\* when its own timer fired first: SKIP_WAITING is posted to
\* registration.waiting and registration.active, whose handlers call
\* self.skipWaiting()
AcceptSkipWaiting(raced) ==
  /\ page.update = "clearing"
  /\ raced \/ \E c \in Calls : calls[c].kind = "clearCache" /\ calls[c].pc = "done"
  /\ page' = [page EXCEPT !.update = "promoting"]
  /\ skipWaitingFlag' = [b \in Builds |->
                           skipWaitingFlag[b] \/ status[b] \in {"Waiting", "Active"}]
  /\ promoted' = promoted \cup {b \in Builds : status[b] = "Waiting"}
  /\ last' = Event("SKIP_WAITING", 0, last.op)
  /\ UNCHANGED <<config, shell, awaiting, status, controller, cacheNames, entries, pending,
                 calls, mailbox, ports>>

\* window.location.reload() 100 ms later (273-281): the document with its
\* unsettled calls is replaced
AcceptReload ==
  /\ page.update = "promoting"
  /\ page' = [NoPage EXCEPT !.shown = page.shown, !.under = page.under,
                            !.update = "reloaded"]
  /\ calls' = [c \in Calls |->
                 IF calls[c].pc \in {"waiting", "enumerating"}
                   THEN [calls[c] EXCEPT !.pc = "gone"]
                   ELSE calls[c]]
  /\ last' = Event("updateReload", 0, last.op)
  /\ UNCHANGED <<config, shell, awaiting, status, skipWaitingFlag, controller, cacheNames,
                 entries, pending, promoted, mailbox, ports>>

InitUpdate == InitClient

NextUpdate ==
  \/ PageLoad
  \/ \E b \in ClientBuilds : UpdateFound(b)
  \/ \E b \in ClientBuilds : Installed(b)
  \/ \E b \in ClientBuilds : ActivateEvent(b) /\ Unobserved
  \/ \E c \in Calls : AcceptUpdate(c)
  \/ \E m \in mailbox, ok \in BOOLEAN : OnMessage(m, ok)
  \/ \E c \in Calls : DeliverReply(c)
  \/ \E c \in Calls, ok \in BOOLEAN : Timeout(c, ok)
  \/ \E raced \in BOOLEAN : AcceptSkipWaiting(raced)
  \/ AcceptReload

\* one page on which the user accepts the update to the newest of
\* MaxClientVersion builds
SpecUpdate == InitUpdate /\ [][NextUpdate]_vars

\* C31: when the flow of the Install button has finished with its reload,
\* the store of the newly installed generation exists and holds every entry
\* its install wrote.
C31_UpdatedStoreSurvivesAccept ==
  last.op = "updateReload" =>
    /\ CACHE_NAME(UpdatedBuild) \in cacheNames
    /\ InstallKeys({}, {}) \subseteq entries[CACHE_NAME(UpdatedBuild)]

\* ------------------------------------------- the two reads of GET_CACHE_INFO
\* message GET_CACHE_INFO, line 1140: the handler awaits
\* CacheManager.getAppCaches(), its first caches.keys()
GetAppCachesRead(b) ==
  /\ status[b] = "Active"
  /\ info = NoInfo
  /\ flight = NoFlight
  /\ info' = [by |-> b, appCaches |-> getAppCaches(cacheNames)]
  /\ last' = Event("getAppCaches", b, last.op)
  /\ UNCHANGED <<config, shell, flight, status, skipWaitingFlag, controller,
                 cacheNames, entries, pending>>

\* message GET_CACHE_INFO, lines 1141-1151: the handler awaits
\* CacheManager.currentCacheExists(), a second caches.keys(), and posts both
\* results
GetCacheInfoReply(b) ==
  /\ info.by = b
  /\ info' = NoInfo
  /\ last' = [Event("GET_CACHE_INFO", b, last.op) EXCEPT
                !.reply = [NoReply EXCEPT !.sent = TRUE, !.success = TRUE,
                             !.cacheVersion = b,
                             !.appCaches = info.appCaches,
                             !.currentCacheExists = currentCacheExists(b, cacheNames)]]
  /\ UNCHANGED <<config, shell, flight, status, skipWaitingFlag, controller,
                 cacheNames, entries, pending>>

InitInfo == InitWith({PlaceholderHistory}, {RelativeDoc}, {{ForeignCache}})

NextInfo ==
  \/ \E b \in ContentBuilds : Register(b) /\ Unobserved
  \/ \E b \in ContentBuilds : InstallEvent(b, {}) /\ Unobserved
  \/ \E b \in ContentBuilds : ActivateEvent(b) /\ Unobserved
  \/ \E b \in ContentBuilds : ClearCache(b) /\ Unobserved
  \/ \E b \in ContentBuilds : ClearAppCache(b) /\ Unobserved
  \/ \E b \in ContentBuilds : ForceUpdate(b, {}) /\ Unobserved
  \/ \E b \in ContentBuilds : GetAppCachesRead(b) /\ Unobserved
  \/ \E b \in ContentBuilds : GetCacheInfoReply(b) /\ Unobserved

\* MaxContentVersion builds whose GET_CACHE_INFO handler runs its two reads
\* while other handlers create and delete caches
SpecInfo == InitInfo /\ [][NextInfo]_vars

\* C32: in every reply to GET_CACHE_INFO, currentCacheExists is true
\* exactly when the name of the current cache is among the reported
\* appCaches.
C32_StatusReplyConsistent ==
  (last.op = "GET_CACHE_INFO" /\ last.reply.success) =>
    (last.reply.currentCacheExists <=> CACHE_NAME(last.by) \in last.reply.appCaches)

\* ------------------------------------- the fetch handler, await by await
\* the network fetches and the cache operations a fetch handler awaits
NetPcs ==
  {"staticFetch", "devNavFetch", "faviconFetch", "devFetch", "manifestFetch",
   "navFetch", "fetch", "catchFetch"}
StorePcs ==
  {"devMatch", "manifestMatch", "manifestOpen", "navMatchIndex", "navMatchRoot",
   "navOpen", "match", "fallbackMatch"}

\* variant with a fault: development looks into the caches first
FirstAwaitCacheFirst(req) ==
  IF req.method # "GET" \/ ~StartsWithOrigin(req.url) THEN ""
  ELSE IF IsStaticFile(req.url) THEN "staticFetch"
  ELSE IF isDevelopment
    THEN IF DevExcluded(req.url) THEN ""
         ELSE IF req.mode = "navigate" THEN "devNavFetch"
         ELSE IF IsFavicon(req.url) THEN "faviconFetch"
         ELSE "match"
  ELSE IF IsFavicon(req.url) THEN "faviconFetch"
  ELSE IF UrlIncludes(req.url, "manifest", ".json") THEN "manifestMatch"
  ELSE IF req.mode = "navigate" THEN "navMatchIndex"
  ELSE "match"

\* the first operation the handler awaits for a request, "" when it returns
\* without event.respondWith: lines 592-598, 608, 628-658, 747, 760, 792, 926
FirstAwait(req) ==
  IF req.method # "GET" \/ ~StartsWithOrigin(req.url) THEN ""
  ELSE IF IsStaticFile(req.url) THEN "staticFetch"
  ELSE IF isDevelopment
    THEN IF DevExcluded(req.url) THEN ""
         ELSE IF req.mode = "navigate" THEN "devNavFetch"
         ELSE IF IsFavicon(req.url) THEN "faviconFetch"
         ELSE "devFetch"
  ELSE IF IsFavicon(req.url) THEN "faviconFetch"
  ELSE IF UrlIncludes(req.url, "manifest", ".json") THEN "manifestMatch"
  ELSE IF req.mode = "navigate" THEN "navMatchIndex"
  ELSE "match"

\* the handler goes on to await `pc`, or answers
Await(pc) ==
  [responded |-> FALSE, pc |-> pc, response |-> "", opens |-> FALSE, puts |-> {},
   bg |-> ""]
Answer(response, opens, puts) ==
  [responded |-> TRUE, pc |-> "", response |-> response, opens |-> opens,
   puts |-> puts, bg |-> ""]

\* the answer of a handler that has started a detached fetch, which will
\* return `bg`, without awaiting it: lines 800-808 and 930-942
Revalidating(answer, bg) == [answer EXCEPT !.bg = bg]

\* the detached write of a response fetched for req
DynamicPut(b, req, net) ==
  IF Cacheable(req.url, net) THEN {Put(b, {req.url}, FALSE)} ELSE {}

\* variant with a fault: the second fetch of the catch block is not guarded
AfterFetchUnguarded(b, pc, req, net) ==
  CASE pc = "staticFetch" ->
         Answer(IF ResponseOk(net) THEN "network" ELSE "notfound404", FALSE, {})
    [] pc = "devNavFetch" ->
         Answer(IF ResponseOk(net) THEN "network" ELSE "devOffline503", FALSE, {})
    [] pc = "faviconFetch" ->
         Answer(IF net = "fail" THEN "notfound404" ELSE "network", FALSE, {})
    [] pc = "devFetch" ->
         IF net # "fail" THEN Answer("network", FALSE, DynamicPut(b, req, net))
         ELSE Await("devMatch")
    [] pc = "manifestFetch" ->
         IF ResponseOk(net) THEN Await("manifestOpen")
         ELSE IF net = "fail" THEN Answer("defaultManifest", FALSE, {})
         ELSE IF req.mode = "navigate" THEN Await("navMatchIndex")
         ELSE Await("match")
    [] pc = "navFetch" ->
         IF ResponseOk(net) THEN Await("navOpen")
         ELSE Answer("offlinePage200", FALSE, {})
    [] pc = "fetch" ->
         IF net # "fail" THEN Answer("network", FALSE, DynamicPut(b, req, net))
         ELSE Await("fallbackMatch")
    [] pc = "catchFetch" ->
         IF net = "fail" THEN Await("rejected") ELSE Answer("network", FALSE, {})

\* the network fetch awaited at `pc` settles as `net`: lines 610-619,
\* 640-652, 663-670 and 749-756, 674-691, 768-788, 814-827, 948-974,
\* 1005-1013
AfterFetch(b, pc, req, net) ==
  CASE pc = "staticFetch" ->
         Answer(IF ResponseOk(net) THEN "network" ELSE "notfound404", FALSE, {})
    [] pc = "devNavFetch" ->
         Answer(IF ResponseOk(net) THEN "network" ELSE "devOffline503", FALSE, {})
    [] pc = "faviconFetch" ->
         Answer(IF net = "fail" THEN "notfound404" ELSE "network", FALSE, {})
    [] pc = "devFetch" ->
         IF net # "fail" THEN Answer("network", FALSE, DynamicPut(b, req, net))
         ELSE Await("devMatch")
    [] pc = "manifestFetch" ->
         IF ResponseOk(net) THEN Await("manifestOpen")
         ELSE IF net = "fail" THEN Answer("defaultManifest", FALSE, {})
         ELSE IF req.mode = "navigate" THEN Await("navMatchIndex")
         ELSE Await("match")
    [] pc = "navFetch" ->
         IF ResponseOk(net) THEN Await("navOpen")
         ELSE Answer("offlinePage200", FALSE, {})
    [] pc = "fetch" ->
         IF net # "fail" THEN Answer("network", FALSE, DynamicPut(b, req, net))
         ELSE Await("fallbackMatch")
    [] pc = "catchFetch" ->
         Answer(IF net = "fail" THEN "unavailable503" ELSE "network", FALSE, {})

\* variant with a fault: the generic branch awaits the network although
\* the lookup found an entry
AfterStoreNetworkFirst(b, pc, req, ok, bg, names, ents) ==
  CASE pc = "devMatch" ->
         IF ~ok THEN Answer("notfound404", FALSE, {})
         ELSE IF CacheMatch(req.url, names, ents) THEN Answer("cache", FALSE, {})
         ELSE Answer(TypedFallback(req), FALSE, {})
    [] pc = "manifestMatch" ->
         IF ~ok THEN Await("catchFetch")
         ELSE IF CacheMatch(ManifestUrl, names, ents) THEN Answer("cache", FALSE, {})
         ELSE Await("manifestFetch")
    [] pc = "manifestOpen" ->
         IF ~ok THEN Answer("defaultManifest", FALSE, {})
         ELSE Answer("network", TRUE, {Put(b, {ManifestUrl}, TRUE)})
    [] pc \in {"navMatchIndex", "navMatchRoot"} ->
         IF ~ok THEN Await("catchFetch")
         ELSE IF CacheMatch(IF pc = "navMatchIndex" THEN IndexUrl ELSE RootUrl,
                            names, ents)
           THEN Revalidating(
                  Answer("cache", FALSE,
                         IF ResponseOk(bg) THEN {Put(b, {RootUrl, IndexUrl}, FALSE)}
                         ELSE {}),
                  bg)
         ELSE IF pc = "navMatchIndex" THEN Await("navMatchRoot")
         ELSE Await("navFetch")
    [] pc = "navOpen" ->
         IF ~ok THEN Answer("offlinePage200", FALSE, {})
         ELSE Answer("network", TRUE, {Put(b, {RootUrl, IndexUrl}, TRUE)})
    [] pc = "match" ->
         IF ~ok THEN Await("catchFetch")
         ELSE IF CacheMatch(req.url, names, ents)
           THEN Await("fetch")
         ELSE Await("fetch")
    [] pc = "fallbackMatch" ->
         IF ~ok THEN Await("catchFetch")
         ELSE IF CacheMatch(req.url, names, ents) THEN Answer("cache", FALSE, {})
         ELSE Answer(TypedFallback(req), FALSE, {})

\* the cache operation awaited at `pc` settles: it resolves (`ok`) with
\* what the caches hold at that moment, or rejects.  A hit starts the
\* detached revalidation, whose fetch will return `bg`: lines 693-712,
\* 761-765, 770-773, 793-811, 819-823, 926-944, 977-998
AfterStore(b, pc, req, ok, bg, names, ents) ==
  CASE pc = "devMatch" ->
         IF ~ok THEN Answer("notfound404", FALSE, {})
         ELSE IF CacheMatch(req.url, names, ents) THEN Answer("cache", FALSE, {})
         ELSE Answer(TypedFallback(req), FALSE, {})
    [] pc = "manifestMatch" ->
         IF ~ok THEN Await("catchFetch")
         ELSE IF CacheMatch(ManifestUrl, names, ents) THEN Answer("cache", FALSE, {})
         ELSE Await("manifestFetch")
    [] pc = "manifestOpen" ->
         IF ~ok THEN Answer("defaultManifest", FALSE, {})
         ELSE Answer("network", TRUE, {Put(b, {ManifestUrl}, TRUE)})
    [] pc \in {"navMatchIndex", "navMatchRoot"} ->
         IF ~ok THEN Await("catchFetch")
         ELSE IF CacheMatch(IF pc = "navMatchIndex" THEN IndexUrl ELSE RootUrl,
                            names, ents)
           THEN Revalidating(
                  Answer("cache", FALSE,
                         IF ResponseOk(bg) THEN {Put(b, {RootUrl, IndexUrl}, FALSE)}
                         ELSE {}),
                  bg)
         ELSE IF pc = "navMatchIndex" THEN Await("navMatchRoot")
         ELSE Await("navFetch")
    [] pc = "navOpen" ->
         IF ~ok THEN Answer("offlinePage200", FALSE, {})
         ELSE Answer("network", TRUE, {Put(b, {RootUrl, IndexUrl}, TRUE)})
    [] pc = "match" ->
         IF ~ok THEN Await("catchFetch")
         ELSE IF CacheMatch(req.url, names, ents)
           THEN Revalidating(Answer("cache", FALSE, DynamicPut(b, req, bg)), bg)
         ELSE Await("fetch")
    [] pc = "fallbackMatch" ->
         IF ~ok THEN Await("catchFetch")
         ELSE IF CacheMatch(req.url, names, ents) THEN Answer("cache", FALSE, {})
         ELSE Answer(TypedFallback(req), FALSE, {})

\* a fetch event is dispatched to the worker that controls the page and its
\* handler runs up to its first await
FetchEvent(b, req) ==
  /\ status[b] = "Active"
  /\ controller = b
  /\ flight = NoFlight
  /\ FirstAwait(req) # ""
  /\ flight' = [NoFlight EXCEPT !.by = b, !.req = req, !.pc = FirstAwait(req)]
  /\ last' = Event("fetchEvent", b, last.op)
  /\ UNCHANGED <<config, shell, info, status, skipWaitingFlag, controller,
                 cacheNames, entries, pending>>

\* the handler in flight goes on as r says: to its next await, or to its
\* answer and the detached writes it leaves behind
Proceed(r, net, rejected) ==
  /\ Cardinality(pending \cup r.puts) <= MaxPending
  /\ cacheNames' = IF r.opens THEN cacheNames \cup {CACHE_NAME(flight.by)}
                   ELSE cacheNames
  /\ pending' = pending \cup r.puts
  /\ LET fetched == IF flight.fetched = "" THEN net ELSE flight.fetched
         store == IF rejected THEN "rejects" ELSE flight.store
     IN IF r.responded
          THEN /\ flight' = NoFlight
               /\ last' = [Event("fetch", flight.by, last.op) EXCEPT
                             !.req = flight.req, !.net = fetched, !.store = store,
                             !.responded = TRUE, !.response = r.response,
                             !.wrote = r.puts, !.background = r.bg]
          ELSE /\ flight' = [flight EXCEPT !.pc = r.pc, !.fetched = fetched,
                                           !.store = store]
               /\ last' = Event("await", flight.by, last.op)
  /\ UNCHANGED <<config, shell, info, status, skipWaitingFlag, controller, entries>>

\* the network fetch the handler awaits resolves or rejects
NetworkSettles(net) ==
  /\ flight.pc \in NetPcs
  /\ Proceed(AfterFetch(flight.by, flight.pc, flight.req, net), net, FALSE)

\* AbortSignal.timeout(3000) of the first-visit navigation, line 816: the
\* fetch is aborted and rejects
AbortTimeout ==
  /\ flight.pc = "navFetch"
  /\ Proceed(AfterFetch(flight.by, flight.pc, flight.req, "aborted"), "aborted", FALSE)

\* the cache operation the handler awaits resolves or rejects
StoreSettles(ok, bg) ==
  /\ flight.pc \in StorePcs
  /\ Proceed(AfterStore(flight.by, flight.pc, flight.req, ok, bg, cacheNames, entries),
             "", ~ok)

\* the requests followed await by await; the last one is a script of the
\* page fetching the entry document
FlightRequests ==
  {Request("GET", RootUrl, "navigate", "document"),
   Request("GET", AppJsUrl, "no-cors", "script"),
   Request("GET", PhotoUrl, "no-cors", "image"),
   Request("GET", ManifestUrl, "cors", "manifest"),
   Request("GET", FaviconSvgUrl, "no-cors", "image"),
   Request("GET", RobotsUrl, "navigate", "document"),
   Request("GET", IndexUrl, "cors", "")}

\* the fetches that fail during an install: none, or those of the entry
\* document under both its URLs and of the manifest, which leaves a store
\* without them
FlightFails == {{}, {RootUrl, IndexUrl, ManifestUrl}}

InitFlight == InitWith({PlaceholderHistory}, {RelativeDoc}, {})

NextFlight ==
  \/ \E b \in FetchBuilds : Register(b) /\ Unobserved
  \/ \E b \in FetchBuilds, fails \in FlightFails : InstallEvent(b, fails) /\ Unobserved
  \/ \E b \in FetchBuilds : ActivateEvent(b) /\ Unobserved
  \/ \E b \in FetchBuilds, req \in FlightRequests : FetchEvent(b, req) /\ Unobserved
  \/ \E net \in NetResponses : NetworkSettles(net) /\ Unobserved
  \/ AbortTimeout /\ Unobserved
  \/ \E ok \in BOOLEAN, bg \in NetResponses : StoreSettles(ok, bg) /\ Unobserved
  \/ \E w \in pending, outcome \in WriteOutcomes :
       BackgroundWrite(w, outcome) /\ Unobserved

\* MaxFetchVersion builds whose fetch handler is followed from one awaited
\* operation to the next
SpecFlight == InitFlight /\ [][NextFlight]_vars

\* every network fetch and every cache operation that a handler awaits
\* settles
Settles ==
  \/ \E net \in NetResponses : NetworkSettles(net) /\ Unobserved
  \/ \E ok \in BOOLEAN, bg \in NetResponses : StoreSettles(ok, bg) /\ Unobserved

SpecFlightFair == SpecFlight /\ WF_vars(Settles)

C34_FaviconNetworkOnlyNeverStored ==
  /\ (last.op = "fetch" /\ last.responded /\ IsFavicon(last.req.url)) =>
       /\ last.response = (IF last.net = "fail" THEN "notfound404" ELSE "network")
       /\ last.wrote = {}
  /\ \A n \in cacheNames : \A key \in entries[n] : ~IsFavicon(key)

\* timers fire and cache operations settle, while a network fetch may stay
\* unanswered for ever
SpecFlightTimers ==
  /\ SpecFlight
  /\ WF_vars(AbortTimeout /\ Unobserved)
  /\ WF_vars(\E ok \in BOOLEAN, bg \in NetResponses : StoreSettles(ok, bg) /\ Unobserved)

\* C35: in development a navigation is answered from the network alone and
\* under a timeout: it gets the network response when that is ok and the
\* "dev origin unreachable" document when the fetch fails or returns an
\* error status, no cache is read or written for it, and it is answered
\* even when the network never answers.
C35_DevNavigationNetworkOnlyWithTimeout ==
  /\ [](isDevelopment =>
          /\ flight.req.mode = "navigate" => flight.pc \in {"", "staticFetch", "devNavFetch"}
          /\ (last.op = "fetch" /\ last.responded /\ last.req.mode = "navigate"
                /\ ~IsStaticFile(last.req.url)) =>
               /\ last.response = (IF ResponseOk(last.net) THEN "network"
                                   ELSE "devOffline503")
               /\ last.store = ""
               /\ last.wrote = {})
  /\ (isDevelopment /\ flight.pc = "devNavFetch")
       ~> (flight = NoFlight /\ last.op = "fetch" /\ last.responded)

\* --------------------------------------------------------- typed fallback
\* the status of the responses the worker makes itself
StatusOf(response) ==
  CASE response \in {"image404", "notfound404"} -> 404
    [] response \in {"unavailable503", "devOffline503"} -> 503
    [] response \in {"offlinePage200", "defaultManifest"} -> 200
    [] OTHER -> 0

\* a request of the generic branch: no navigation, no static file, no
\* favicon, no manifest
Generic(req) ==
  /\ req.mode # "navigate"
  /\ ~IsStaticFile(req.url)
  /\ ~IsFavicon(req.url)
  /\ ~UrlIncludes(req.url, "manifest", ".json")

\* C36: a generic request that is answered neither with a network response
\* nor with a cached one gets status 404 when its destination is an image
\* and status 503 otherwise, in both environments and also after a rejected
\* cache operation.
C36_TypedFallbackByDestination ==
  (/\ last.op = "fetch"
   /\ last.responded
   /\ Generic(last.req)
   /\ last.response \notin {"network", "cache"}) =>
    StatusOf(last.response) = (IF last.req.destination = "image" THEN 404 ELSE 503)

\* ------------------------------------------------ dynamic-cacheable assets
\* a generic request whose URL matches a dynamic cache pattern
DynamicAsset(req) == Generic(req) /\ ShouldCache(req.url)

\* C37: in development the handler of a dynamic-cacheable asset looks into
\* the caches only after its network fetch has failed: an answered network
\* fetch is what it returns, and a cached response is returned only after a
\* failed fetch.
C37_DevNetworkFirst ==
  isDevelopment =>
    /\ (DynamicAsset(flight.req) /\ flight.pc \in StorePcs) => flight.fetched = "fail"
    /\ (last.op = "fetch" /\ last.responded /\ DynamicAsset(last.req)) =>
         /\ last.net # "fail" => last.response = "network"
         /\ last.response = "cache" => last.net = "fail"

\* a development request was answered from a cache after its fetch failed
C37_Witness ==
  /\ isDevelopment
  /\ last.op = "fetch"
  /\ DynamicAsset(last.req)
  /\ last.net = "fail"
  /\ last.response = "cache"

\* C38: in production the handler of a dynamic-cacheable asset looks into
\* the caches first.  When the lookup finds an entry the handler answers
\* with it at once, having awaited no network fetch and having started the
\* detached revalidation; only when it finds none does the handler go on to
\* await the network, and a network response with status 200 is then handed
\* to a write into the cache of the worker's own generation, where the
\* write, when it goes through, leaves it.
C38_ProdCacheFirst ==
  [][/\ (~isDevelopment /\ DynamicAsset(flight.req) /\ flight.pc = "match"
           /\ flight' # flight) =>
          \/ flight'.pc = "catchFetch"
          \/ /\ CacheMatch(flight.req.url, cacheNames, entries)
             /\ flight' = NoFlight
             /\ last'.response = "cache"
             /\ last'.net = ""
             /\ last'.background # ""
          \/ /\ ~CacheMatch(flight.req.url, cacheNames, entries)
             /\ flight'.pc = "fetch"
     /\ (~isDevelopment /\ DynamicAsset(flight.req) /\ flight.pc = "fetch"
           /\ flight' = NoFlight /\ last'.net = "ok200") =>
          /\ last'.response = "network"
          /\ last'.wrote = {Put(flight.by, {flight.req.url}, FALSE)}
          /\ \A w \in last'.wrote : w.cache = CACHE_NAME(flight.by)
     /\ \A w \in pending \ pending' :
          entries' # entries => (w.cache \in cacheNames' /\ w.keys \subseteq entries'[w.cache])
    ]_vars

\* an asset missing from the caches was fetched and its response has been
\* written into the cache of the worker's generation
C38_Witness ==
  /\ ~isDevelopment
  /\ last.op = "write"
  /\ controller # 0
  /\ CACHE_NAME(controller) \in cacheNames
  /\ AppJsUrl \in entries[CACHE_NAME(controller)]
  /\ AppJsUrl \notin InstallKeys({}, {RootUrl, IndexUrl, ManifestUrl})
  /\ IndexUrl \notin entries[CACHE_NAME(controller)]

\* C39: a detached revalidation, of a generic asset or of the navigation
\* shell, starts a cache write only when its network response has status
\* 200 and comes from the origin itself; an error status, another 2xx
\* status or a response of another origin starts none, so that no cache
\* changes.
C39_RevalidationWritesOnlySameOrigin200 ==
  (last.op = "fetch" /\ last.background # "" /\ last.wrote # {}) =>
    (last.background = "ok200" /\ SameOrigin(last.req.url))

\* C40: a generic request whose URL matches no dynamic cache pattern starts
\* no cache write, and when its network fetch fails, awaited or detached,
\* and no cache operation rejects, it is answered with the fallback for its
\* destination and not with a cached entry, in both environments.
C40_UncacheableNetworkOnly ==
  (/\ last.op = "fetch"
   /\ last.responded
   /\ Generic(last.req)
   /\ ~ShouldCache(last.req.url)) =>
    /\ last.wrote = {}
    /\ ((last.net = "fail" \/ last.background = "fail") /\ last.store = "") =>
         last.response = TypedFallback(last.req)

========================================================================
